---- MODULE Spec2Model ----
(***************************************************************************)
(* Byte-level model of the Minecraft forwarding proxy's per-connection     *)
(* state machine: the primitive codec (types.rs), the packet framer        *)
(* (packets/packet_read.rs, packets/packet_write.rs), the packet types     *)
(* (packets/*.rs) and Connection::handle (connection.rs).                  *)
(*                                                                         *)
(* A byte is a number in 0..255 and a stream is a sequence of bytes.  A    *)
(* read takes the stream that is left and returns a record with a tag      *)
(* ("Ok", "Io", "Abort", ...) and the stream after it.  "Abort" stands for *)
(* the two outcomes a build can produce on an arithmetic overflow or an    *)
(* impossible allocation: a panic, or a loop that never ends.              *)
(*                                                                         *)
(* A body reader is a chain of reads on one reader, each ending in `?`.    *)
(* The model writes the chain as nested Then.. steps on a reader state     *)
(* [tag, rest, out]: a step does nothing once tag is not "Ok", and appends *)
(* what it read to out otherwise.                                          *)
(***************************************************************************)
EXTENDS Integers, Sequences, FiniteSets, TLC

\* ------------------------------------------------------------------------
\* Sequence helpers
\* ------------------------------------------------------------------------

Take(s, n) == SubSeq(s, 1, n)

Drop(s, n) == SubSeq(s, n + 1, Len(s))

RECURSIVE Flatten(_)
Flatten(ss) == IF ss = <<>> THEN <<>> ELSE Head(ss) \o Flatten(Tail(ss))

RECURSIVE Zeros(_)
Zeros(n) == IF n <= 0 THEN <<>> ELSE <<0>> \o Zeros(n - 1)

\* ------------------------------------------------------------------------
\* types.rs: VarInt
\* ------------------------------------------------------------------------

\* i32::MIN, written so that no intermediate value leaves 32 bits
I32Min == -2147483647 - 1

RECURSIVE Pow2(_)
Pow2(n) == IF n = 0 THEN 1 ELSE 2 * Pow2(n - 1)

\* value << (7 * num_read) on an i32, for value in 0..127 and num_read in 0..4:
\* bits shifted past bit 31 are lost and bit 31 is the sign
ShiftGroup(value, num_read) ==
    IF num_read < 4 THEN value * Pow2(7 * num_read)
    ELSE ((value % 8) * Pow2(28)) + (IF (value \div 8) % 2 = 1 THEN I32Min ELSE 0)

\* arithmetic shift right by 7 of an i32
Shr7(v) == v \div 128

RECURSIVE VarIntReadLoop(_, _, _)
VarIntReadLoop(s, num_read, result) ==
    IF s = <<>> THEN [tag |-> "Io", value |-> 0, bytes_needed |-> 0, rest |-> s]
    ELSE LET byte == Head(s)
             value == byte % 128
             r2 == result + ShiftGroup(value, num_read)
             n2 == num_read + 1
         IN  IF n2 > 5
             THEN [tag |-> "Io", value |-> 0, bytes_needed |-> 0, rest |-> Tail(s)]
             ELSE IF byte < 128
             THEN [tag |-> "Ok", value |-> r2, bytes_needed |-> n2, rest |-> Tail(s)]
             ELSE VarIntReadLoop(Tail(s), n2, r2)

\* <VarInt as MCData>::read
VarIntRead(s) == VarIntReadLoop(s, 0, 0)

RECURSIVE VarIntCount(_)
VarIntCount(temp) == IF temp = 0 THEN 0 ELSE 1 + VarIntCount(Shr7(temp))

\* VarInt::try_from: a negative value never shifts down to 0, so the count
\* overflows its u8 (panic) or the loop never ends
VarIntTryFrom(value) ==
    IF value < 0 THEN [tag |-> "Abort", value |-> value, bytes_needed |-> 0]
    ELSE IF value = 0 THEN [tag |-> "Ok", value |-> 0, bytes_needed |-> 1]
    ELSE [tag |-> "Ok", value |-> value, bytes_needed |-> VarIntCount(value)]

RECURSIVE VarIntWriteLoop(_)
VarIntWriteLoop(value) ==
    LET temp == value % 128
        v2 == Shr7(value)
    IN  IF v2 # 0 THEN <<temp + 128>> \o VarIntWriteLoop(v2) ELSE <<temp>>

\* <VarInt as MCData>::write diverges on a negative value (value >>= 7 never
\* reaches 0); the bytes it emits otherwise
VarIntWriteAborts(value) == value < 0

VarIntWrite(value) == IF value < 0 THEN <<>> ELSE VarIntWriteLoop(value)

\* <VarInt as MCData>::byte_size
VarIntByteSize(v) == v.bytes_needed

\* ------------------------------------------------------------------------
\* std: String::from_utf8_lossy, on bytes
\* ------------------------------------------------------------------------

IsCont(b) == b >= 128 /\ b <= 191

\* total length of the sequence a lead byte starts, 0 when it starts none
Utf8Width(b) ==
    IF b < 128 THEN 1
    ELSE IF b >= 194 /\ b <= 223 THEN 2
    ELSE IF b >= 224 /\ b <= 239 THEN 3
    ELSE IF b >= 240 /\ b <= 244 THEN 4
    ELSE 0

\* whether c may follow the lead byte b
Utf8SecondOk(b, c) ==
    IF b = 224 THEN c >= 160 /\ c <= 191
    ELSE IF b = 237 THEN c >= 128 /\ c <= 159
    ELSE IF b = 240 THEN c >= 144 /\ c <= 191
    ELSE IF b = 244 THEN c >= 128 /\ c <= 143
    ELSE IsCont(c)

\* the number of bytes of s that form a valid sequence at its head (valid =
\* TRUE), or the length of the maximal invalid prefix (valid = FALSE)
Utf8Chunk(s) ==
    LET b == s[1]
        w == Utf8Width(b)
    IN  IF w = 0 THEN [valid |-> FALSE, n |-> 1]
        ELSE IF w = 1 THEN [valid |-> TRUE, n |-> 1]
        ELSE IF Len(s) < 2 \/ ~Utf8SecondOk(b, s[2]) THEN [valid |-> FALSE, n |-> 1]
        ELSE IF w = 2 THEN [valid |-> TRUE, n |-> 2]
        ELSE IF Len(s) < 3 \/ ~IsCont(s[3]) THEN [valid |-> FALSE, n |-> 2]
        ELSE IF w = 3 THEN [valid |-> TRUE, n |-> 3]
        ELSE IF Len(s) < 4 \/ ~IsCont(s[4]) THEN [valid |-> FALSE, n |-> 3]
        ELSE [valid |-> TRUE, n |-> 4]

\* U+FFFD
Replacement == <<239, 191, 189>>

\* the lossy decoding of s, given the chunk at its head
RECURSIVE Utf8LossyFrom(_, _)
Utf8LossyFrom(s, c) ==
    IF Len(s) = c.n THEN (IF c.valid THEN s ELSE Replacement)
    ELSE (IF c.valid THEN Take(s, c.n) ELSE Replacement)
             \o Utf8LossyFrom(Drop(s, c.n), Utf8Chunk(Drop(s, c.n)))

\* bytes below 0x80 are valid UTF-8 as they are
Utf8Lossy(s) ==
    IF \A i \in 1..Len(s) : s[i] < 128 THEN s ELSE Utf8LossyFrom(s, Utf8Chunk(s))

\* ------------------------------------------------------------------------
\* types.rs: MCString and Uuid
\* ------------------------------------------------------------------------

NoVarInt == [value |-> 0, bytes_needed |-> 0]

NoString == [length |-> NoVarInt, value |-> <<>>]

VarIntOf(r) == [value |-> r.value, bytes_needed |-> r.bytes_needed]

\* the rest of <MCString as MCData>::read once the length l is read: a
\* negative length asks for an impossible buffer
MCStringReadValue(l) ==
    IF l.tag # "Ok" THEN [tag |-> l.tag, str |-> NoString, rest |-> l.rest]
    ELSE IF l.value < 0 THEN [tag |-> "Abort", str |-> NoString, rest |-> l.rest]
    ELSE IF Len(l.rest) < l.value THEN [tag |-> "Io", str |-> NoString, rest |-> <<>>]
    ELSE [tag |-> "Ok",
          str |-> [length |-> VarIntOf(l), value |-> Utf8Lossy(Take(l.rest, l.value))],
          rest |-> Drop(l.rest, l.value)]

\* <MCString as MCData>::read
MCStringRead(s) == MCStringReadValue(VarIntRead(s))

\* the longest string MCString::new accepts
MCStringMax == 32767

\* a constructor that accepts every length
MCStringOfAnyLength(l, value) ==
    [tag |-> "Ok", str |-> [length |-> VarIntOf(l), value |-> value]]

MCStringOfLength(l, value) ==
    IF l.value > MCStringMax THEN [tag |-> "Err", str |-> NoString]
    ELSE [tag |-> "Ok", str |-> [length |-> VarIntOf(l), value |-> value]]

\* MCString::new
MCStringNew(value) == MCStringOfLength(VarIntTryFrom(Len(value)), value)

\* <MCString as MCData>::write
MCStringWrite(str) == VarIntWrite(str.length.value) \o str.value

\* <MCString as MCData>::byte_size
MCStringByteSize(str) == VarIntByteSize(str.length) + Len(str.value)

\* size_of::<Uuid>()
UuidLen == 16

\* ------------------------------------------------------------------------
\* Reads in sequence on one reader
\* ------------------------------------------------------------------------

Start(s) == [tag |-> "Ok", rest |-> s, out |-> <<>>]

Fail(p, tag, rest) == [tag |-> tag, rest |-> rest, out |-> p.out]

Emit(p, value, rest) == [tag |-> "Ok", rest |-> rest, out |-> Append(p.out, value)]

Last(s) == s[Len(s)]

ThenVarIntResult(p, v) ==
    IF v.tag = "Ok" THEN Emit(p, VarIntOf(v), v.rest) ELSE Fail(p, v.tag, v.rest)

\* VarInt::read(reader).await?
ThenVarInt(p) == IF p.tag # "Ok" THEN p ELSE ThenVarIntResult(p, VarIntRead(p.rest))

ThenStringResult(p, m) ==
    IF m.tag = "Ok" THEN Emit(p, m.str, m.rest) ELSE Fail(p, m.tag, m.rest)

\* MCString::read(reader).await?
ThenString(p) == IF p.tag # "Ok" THEN p ELSE ThenStringResult(p, MCStringRead(p.rest))

\* reader.read_u8().await?
ThenU8(p) ==
    IF p.tag # "Ok" THEN p
    ELSE IF p.rest = <<>> THEN Fail(p, "Io", <<>>)
    ELSE Emit(p, Head(p.rest), Tail(p.rest))

\* reader.read_u16().await?, big-endian
ThenU16(p) ==
    IF p.tag # "Ok" THEN p
    ELSE IF Len(p.rest) < 2 THEN Fail(p, "Io", <<>>)
    ELSE Emit(p, p.rest[1] * 256 + p.rest[2], Drop(p.rest, 2))

\* reader.read_exact(&mut vec![0u8; n]).await?
ThenExact(p, n) ==
    IF p.tag # "Ok" THEN p
    ELSE IF n < 0 THEN Fail(p, "Abort", p.rest)
    ELSE IF Len(p.rest) < n THEN Fail(p, "Io", <<>>)
    ELSE Emit(p, Take(p.rest, n), Drop(p.rest, n))

\* <Uuid as MCData>::read: the 16 bytes of the big-endian u128
ThenUuid(p) == ThenExact(p, UuidLen)

\* ------------------------------------------------------------------------
\* packets/handshake.rs, packets/login_start.rs, packets/generic.rs
\* ------------------------------------------------------------------------

NoHandshake ==
    [protocol_version |-> NoVarInt, server_address |-> NoString,
     server_port |-> 0, next_state |-> NoVarInt]

HandshakeOf(p) ==
    IF p.tag # "Ok" THEN [tag |-> p.tag, packet |-> NoHandshake, rest |-> p.rest]
    ELSE [tag |-> "Ok",
          packet |-> [protocol_version |-> p.out[1], server_address |-> p.out[2],
                      server_port |-> p.out[3], next_state |-> p.out[4]],
          rest |-> p.rest]

\* <Handshake as ReadPacket>::read
HandshakeRead(s) == HandshakeOf(ThenVarInt(ThenU16(ThenString(ThenVarInt(Start(s))))))

\* <Handshake as Packet>::byte_size
HandshakeByteSize(h) ==
    VarIntByteSize(h.protocol_version) + MCStringByteSize(h.server_address)
        + 2 + VarIntByteSize(h.next_state)

\* <Handshake as WritePacket>::write
HandshakeWrite(h) ==
    VarIntWrite(h.protocol_version.value) \o MCStringWrite(h.server_address)
        \o <<h.server_port \div 256, h.server_port % 256>>
        \o VarIntWrite(h.next_state.value)

HandshakeWriteAborts(h) ==
    VarIntWriteAborts(h.protocol_version.value) \/ VarIntWriteAborts(h.next_state.value)

NoLoginStart == [username |-> NoString]

LoginStartOf(p) ==
    IF p.tag # "Ok" THEN [tag |-> p.tag, packet |-> NoLoginStart, rest |-> p.rest]
    ELSE [tag |-> "Ok", packet |-> [username |-> p.out[1]], rest |-> p.rest]

\* <LoginStart as ReadPacket>::read
LoginStartRead(s) == LoginStartOf(ThenString(Start(s)))

\* <LoginStart as Packet>::byte_size
LoginStartByteSize(l) == MCStringByteSize(l.username)

\* <LoginStart as WritePacket>::write
LoginStartWrite(l) == MCStringWrite(l.username)

NoGeneric == [data |-> <<>>]

GenericPacketOf(p) ==
    IF p.tag # "Ok" THEN [tag |-> p.tag, packet |-> NoGeneric, rest |-> p.rest]
    ELSE [tag |-> "Ok", packet |-> [data |-> p.out[1]], rest |-> p.rest]

\* <GenericPacket as ReadPacket>::read
GenericPacketRead(s, expected_length) == GenericPacketOf(ThenExact(Start(s), expected_length))

\* <GenericPacket as Packet>::byte_size
GenericPacketByteSize(g) == Len(g.data)

\* <GenericPacket as WritePacket>::write
GenericPacketWrite(g) == g.data

\* ------------------------------------------------------------------------
\* packets/velocity_plugin_response.rs
\* ------------------------------------------------------------------------

\* the length of the signature field, [u8; 32]
SigLen == 32

\* the signature of a property, read when the byte before it is 0x01
ThenOptionalSignature(q) ==
    IF q.tag # "Ok" THEN q ELSE IF Last(q.out) = 1 THEN ThenString(q) ELSE q

PropertyOf(p, q) ==
    IF q.tag # "Ok" THEN Fail(p, q.tag, q.rest)
    ELSE Emit(p,
              [name |-> q.out[1], value |-> q.out[2], has_signature |-> q.out[3] = 1,
               signature |-> IF q.out[3] = 1 THEN q.out[4] ELSE NoString],
              q.rest)

\* one turn of the property loop of VelocityLoginPluginResponse::read
ThenProperty(p) ==
    PropertyOf(p, ThenOptionalSignature(ThenU8(ThenString(ThenString(Start(p.rest))))))

RECURSIVE PropertiesLoop(_, _)
PropertiesLoop(p, n) ==
    IF p.tag # "Ok" \/ n <= 0 THEN p ELSE PropertiesLoop(ThenProperty(p), n - 1)

\* Vec::with_capacity(*properties_length as usize), then the loop; a
\* negative count asks for an impossible capacity
ThenProperties(p) ==
    IF p.tag # "Ok" THEN p
    ELSE IF Last(p.out).value < 0 THEN Fail(p, "Abort", p.rest)
    ELSE PropertiesLoop(p, Last(p.out).value)

\* Property::byte_size
PropertyByteSize(p) ==
    MCStringByteSize(p.name) + MCStringByteSize(p.value) + 1
        + (IF p.has_signature THEN MCStringByteSize(p.signature) ELSE 0)

RECURSIVE PropertiesByteSize(_)
PropertiesByteSize(ps) ==
    IF ps = <<>> THEN 0 ELSE PropertyByteSize(Head(ps)) + PropertiesByteSize(Tail(ps))

NoResponse ==
    [connection_id |-> NoVarInt, version |-> NoVarInt, signature |-> <<>>,
     raw_remaining_data |-> <<>>, client_address |-> NoString, player_uuid |-> <<>>,
     username |-> NoString, properties_length |-> NoVarInt, properties |-> <<>>]

\* remaining_bytes of VelocityLoginPluginResponse::read
RemainingBytes(expected_length, connection_id) ==
    expected_length - (VarIntByteSize(connection_id) + 1 + SigLen)

\* the reads of VelocityLoginPluginResponse::read on the buffered payload:
\* version, client_address, player_uuid, username, properties_length and
\* the properties
PayloadRead(raw) ==
    ThenProperties(ThenVarInt(ThenString(ThenUuid(ThenString(ThenVarInt(Start(raw)))))))

ResponseFailed(tag, rest) == [tag |-> tag, packet |-> NoResponse, rest |-> rest]

ResponseOf(head, raw, fields) ==
    IF fields.tag # "Ok" THEN ResponseFailed(fields.tag, raw.rest)
    ELSE [tag |-> "Ok",
          packet |-> [connection_id |-> head.out[1],
                      version |-> fields.out[1],
                      signature |-> head.out[3],
                      raw_remaining_data |-> raw.out[1],
                      client_address |-> fields.out[2],
                      player_uuid |-> fields.out[3],
                      username |-> fields.out[4],
                      properties_length |-> fields.out[5],
                      properties |-> Drop(fields.out, 5)],
          rest |-> raw.rest]

ResponseFields(head, raw) ==
    IF raw.tag # "Ok" THEN ResponseFailed(raw.tag, raw.rest)
    ELSE ResponseOf(head, raw, PayloadRead(raw.out[1]))

\* remaining_bytes is a usize: a frame too short for the fixed fields
\* underflows it
ResponsePayload(expected_length, head) ==
    IF head.tag # "Ok" THEN ResponseFailed(head.tag, head.rest)
    ELSE IF RemainingBytes(expected_length, head.out[1]) < 0
    THEN ResponseFailed("Abort", head.rest)
    ELSE ResponseFields(head, ThenExact(Start(head.rest),
                                        RemainingBytes(expected_length, head.out[1])))

HasPayloadCheck(q) ==
    IF q.tag # "Ok" THEN q ELSE IF Last(q.out) # 1 THEN Fail(q, "Io", q.rest) ELSE q

\* reader.read_u8().await? == 0x01, else InvalidData
ThenHasPayload(p) == HasPayloadCheck(ThenU8(p))

\* <VelocityLoginPluginResponse as ReadPacket>::read
VelocityLoginPluginResponseRead(s, expected_length) ==
    ResponsePayload(expected_length, ThenExact(ThenHasPayload(ThenVarInt(Start(s))), SigLen))

\* <VelocityLoginPluginResponse as Packet>::byte_size
VelocityLoginPluginResponseByteSize(r) ==
    VarIntByteSize(r.connection_id) + 1 + SigLen + VarIntByteSize(r.version)
        + MCStringByteSize(r.client_address) + UuidLen + MCStringByteSize(r.username)
        + VarIntByteSize(r.properties_length) + PropertiesByteSize(r.properties)

\* ------------------------------------------------------------------------
\* hmac / sha2 (external crates): a keyed digest of SigLen bytes.  The model
\* keeps what the proxy relies on: the tag is a function of the key bytes and
\* of every message byte in order.
\* ------------------------------------------------------------------------

RECURSIVE Absorb(_, _)
Absorb(h, bytes) ==
    IF bytes = <<>> THEN h
    ELSE Absorb((h * 31 + Head(bytes) + 1) % 32749, Tail(bytes))

Squeeze(h) == [i \in 1..SigLen |-> (h \div (1 + (i % 5)) + i * (h % 251)) % 256]

HmacSha256(key, message) == Squeeze(Absorb(Absorb(Absorb(7, key), <<255>>), message))

\* one property as Velocity writes it
PropertyWrite(p) ==
    MCStringWrite(p.name) \o MCStringWrite(p.value)
        \o (IF p.has_signature THEN <<1>> \o MCStringWrite(p.signature) ELSE <<0>>)

RECURSIVE PropertiesWrite(_)
PropertiesWrite(ps) ==
    IF ps = <<>> THEN <<>> ELSE PropertyWrite(Head(ps)) \o PropertiesWrite(Tail(ps))

\* the parsed fields written out again
ReserializedFields(r) ==
    VarIntWrite(r.version.value) \o MCStringWrite(r.client_address) \o r.player_uuid
        \o MCStringWrite(r.username) \o VarIntWrite(r.properties_length.value)
        \o PropertiesWrite(r.properties)

\* the message validate authenticates
ValidateMessage(r) == r.raw_remaining_data

\* a check of the shape of the signature only
validateShape(r, secret) == Len(r.signature) = SigLen

\* VelocityLoginPluginResponse::validate
validate(r, secret) == HmacSha256(secret, ValidateMessage(r)) = r.signature

\* ------------------------------------------------------------------------
\* packets/handshake.rs: insert_forwarding_data
\* ------------------------------------------------------------------------

HexDigits == <<48, 49, 50, 51, 52, 53, 54, 55, 56, 57, 97, 98, 99, 100, 101, 102>>

RECURSIVE HexAll(_)
HexAll(bytes) ==
    IF bytes = <<>> THEN <<>>
    ELSE <<HexDigits[(Head(bytes) \div 16) + 1], HexDigits[(Head(bytes) % 16) + 1]>>
             \o HexAll(Tail(bytes))

RECURSIVE StripZeros(_)
StripZeros(digits) ==
    IF Len(digits) > 1 /\ Head(digits) = 48 THEN StripZeros(Tail(digits)) ELSE digits

\* format!("{:x}", u128) of the big-endian bytes
LowerHex(uuid) == StripZeros(HexAll(uuid))

\* one property as the loop body appends it, trailing comma included
PropertyJson(p) ==
    <<123>> \o <<34, 110, 97, 109, 101, 34, 58, 34>> \o p.name.value \o <<34, 44>>
        \o <<34, 118, 97, 108, 117, 101, 34, 58, 34>> \o p.value.value \o <<34>>
        \o (IF p.has_signature
            THEN <<44, 34, 115, 105, 103, 110, 97, 116, 117, 114, 101, 34, 58, 34>>
                     \o p.signature.value \o <<34>>
            ELSE <<>>)
        \o <<125, 44>>

RECURSIVE PropertiesJson(_)
PropertiesJson(ps) ==
    IF ps = <<>> THEN <<>> ELSE PropertyJson(Head(ps)) \o PropertiesJson(Tail(ps))

\* the string left as the loop built it
PopNothing(s) == s

\* forwarding_data.pop()
Pop(s) == Take(s, Len(s) - 1)

\* the string insert_forwarding_data builds
ForwardingData(server_address, client_address, player_uuid, properties) ==
    server_address.value \o <<0>> \o client_address.value \o <<0>> \o LowerHex(player_uuid)
        \o (IF properties = <<>> THEN <<>>
            ELSE <<0, 91>> \o Pop(PropertiesJson(properties)) \o <<93>>)

\* MCString::new(forwarding_data).unwrap() panics on a string that is too long
WithServerAddress(h, s) ==
    IF s.tag # "Ok" THEN [tag |-> "Abort", packet |-> h]
    ELSE [tag |-> "Ok", packet |-> [h EXCEPT !.server_address = s.str]]

\* Handshake::insert_forwarding_data
insert_forwarding_data(h, client_address, player_uuid, properties) ==
    WithServerAddress(h, MCStringNew(ForwardingData(h.server_address, client_address,
                                                    player_uuid, properties)))

\* ------------------------------------------------------------------------
\* packets/disconnect.rs, packets/velocity_plugin_request.rs
\* ------------------------------------------------------------------------

VerifyFailedReason ==
    <<70, 97, 105, 108, 101, 100, 32, 116, 111, 32, 118, 101, 114, 105, 102, 121, 32,
      121, 111, 117, 114, 32, 105, 100, 101, 110, 116, 105, 116, 121, 44, 32, 112, 108,
      101, 97, 115, 101, 32, 114, 101, 106, 111, 105, 110, 32, 116, 104, 101, 32, 115,
      101, 114, 118, 101, 114>>

\* format!(r#"{{"text": "{reason}", "color": "red"}}"#)
ReasonJson(reason) ==
    <<123, 34, 116, 101, 120, 116, 34, 58, 32, 34>> \o reason
        \o <<34, 44, 32, 34, 99, 111, 108, 111, 114, 34, 58, 32, 34, 114, 101, 100, 34, 125>>

\* the reason as plain text instead of a JSON text component
DisconnectPlain(reason) == [reason |-> MCStringNew(reason).str]

\* Disconnect::reason
DisconnectReason(reason) == [reason |-> MCStringNew(ReasonJson(reason)).str]

\* <Disconnect as Packet>::byte_size
DisconnectByteSize(d) == MCStringByteSize(d.reason)

\* <Disconnect as WritePacket>::write
DisconnectWrite(d) == MCStringWrite(d.reason)

\* PlayDisconnect::reason
PlayDisconnectReason(reason) == [inner |-> DisconnectReason(reason)]

\* <PlayDisconnect as Packet>::byte_size
PlayDisconnectByteSize(d) == DisconnectByteSize(d.inner)

\* <PlayDisconnect as WritePacket>::write
PlayDisconnectWrite(d) == DisconnectWrite(d.inner)

\* Option<u8>::None of an ID function
NoPacketId == -1

\* the ranges closed at their upper ends
protocol_idClosed(v) ==
    CASE 0 <= v /\ v <= 67 -> 64
      [] 67 < v /\ v <= 80 -> 25
      [] 80 < v /\ v <= 318 -> 26
      [] 318 < v /\ v <= 332 -> 27
      [] 332 < v /\ v <= 340 -> 26
      [] OTHER -> NoPacketId

\* PlayDisconnect::protocol_id
protocol_id(v) ==
    CASE 0 <= v /\ v < 67 -> 64
      [] 67 <= v /\ v < 80 -> 25
      [] 80 <= v /\ v < 318 -> 26
      [] 318 <= v /\ v < 332 -> 27
      [] 332 <= v /\ v <= 340 -> 26
      [] OTHER -> NoPacketId

\* "The Proxy is shutting down"
ShuttingDownReason ==
    <<84, 104, 101, 32, 80, 114, 111, 120, 121, 32, 105, 115, 32, 115, 104, 117, 116,
      116, 105, 110, 103, 32, 100, 111, 119, 110>>

Channel ==
    <<118, 101, 108, 111, 99, 105, 116, 121, 58, 112, 108, 97, 121, 101, 114, 95, 105,
      110, 102, 111>>

RequestOf(v) == [tag |-> v.tag, packet |-> [connection_id |-> VarIntOf(v)]]

\* VelocityLoginPluginRequest::new: VarInt::new(connection_id).unwrap()
VelocityLoginPluginRequestNew(id) == RequestOf(VarIntTryFrom(id))

\* <VelocityLoginPluginRequest as Packet>::byte_size
VelocityLoginPluginRequestByteSize(q) ==
    VarIntByteSize(q.connection_id) + VarIntTryFrom(Len(Channel)).bytes_needed
        + Len(Channel) + 1

\* the request without the byte of the forwarding version
VelocityLoginPluginRequestWriteBare(q) ==
    VarIntWrite(q.connection_id.value) \o MCStringWrite(MCStringNew(Channel).str)

\* <VelocityLoginPluginRequest as WritePacket>::write
VelocityLoginPluginRequestWrite(q) ==
    VarIntWrite(q.connection_id.value) \o MCStringWrite(MCStringNew(Channel).str) \o <<1>>

\* ------------------------------------------------------------------------
\* Packet::PACKET_ID and the dispatch on the packet type
\* ------------------------------------------------------------------------

HandshakeId == 0

LoginStartId == 0

DisconnectId == 0

VelocityLoginPluginRequestId == 4

VelocityLoginPluginResponseId == 2

\* P::read
BodyRead(kind, s, expected_length) ==
    CASE kind = "Handshake" -> HandshakeRead(s)
      [] kind = "LoginStart" -> LoginStartRead(s)
      [] OTHER -> VelocityLoginPluginResponseRead(s, expected_length)

\* packet.byte_size()
ByteSize(kind, packet) ==
    CASE kind = "Handshake" -> HandshakeByteSize(packet)
      [] kind = "LoginStart" -> LoginStartByteSize(packet)
      [] kind = "VelocityLoginPluginResponse" -> VelocityLoginPluginResponseByteSize(packet)
      [] kind = "VelocityLoginPluginRequest" -> VelocityLoginPluginRequestByteSize(packet)
      [] kind = "Disconnect" -> DisconnectByteSize(packet)
      [] kind = "PlayDisconnect" -> PlayDisconnectByteSize(packet)
      [] OTHER -> GenericPacketByteSize(packet)

\* packet.write(&mut buffer)
BodyWrite(kind, packet) ==
    CASE kind = "Handshake" -> HandshakeWrite(packet)
      [] kind = "LoginStart" -> LoginStartWrite(packet)
      [] kind = "VelocityLoginPluginRequest" -> VelocityLoginPluginRequestWrite(packet)
      [] kind = "Disconnect" -> DisconnectWrite(packet)
      [] kind = "PlayDisconnect" -> PlayDisconnectWrite(packet)
      [] OTHER -> GenericPacketWrite(packet)

BodyWriteAborts(kind, packet) == kind = "Handshake" /\ HandshakeWriteAborts(packet)

\* ------------------------------------------------------------------------
\* packets/packet_read.rs: read_packet_general
\* ------------------------------------------------------------------------

ReadError(tag, rest) ==
    [tag |-> tag, packet |-> NoGeneric, rest |-> rest, expected |-> 0, got |-> 0]

\* the bytes read_exact takes for the packet whose ID is not the expected
\* one: the buffer is packet_length zeros plus the pushed ID, and read_exact
\* fills all of it from the reader
MismatchBufferLen(packet_length) == packet_length + 1

InvalidPacketIdOf(packet_id, read_packet_id, buffer, generic) ==
    IF generic.tag # "Ok" THEN ReadError(generic.tag, buffer.rest)
    ELSE [tag |-> "InvalidPacketId", packet |-> generic.packet, rest |-> buffer.rest,
          expected |-> packet_id, got |-> read_packet_id]

\* GenericPacket::read(&mut buffer.as_slice(), packet_length)
MismatchPacket(packet_length, packet_id, read_packet_id, buffer) ==
    IF buffer.tag # "Ok" THEN ReadError(buffer.tag, buffer.rest)
    ELSE InvalidPacketIdOf(packet_id, read_packet_id, buffer,
                           GenericPacketRead(buffer.out[1], packet_length))

\* the branch of lines 84-95
InvalidPacketIdBranch(packet_length, packet_id, read_packet_id, r) ==
    MismatchPacket(packet_length, packet_id, read_packet_id,
                   ThenExact(Start(r), MismatchBufferLen(packet_length)))

\* the drain of lines 115-116
Drain(packet_length, packet_size, body, drained) ==
    IF drained.tag # "Ok" THEN ReadError(drained.tag, drained.rest)
    ELSE [tag |-> "Ok", packet |-> body.packet, rest |-> drained.rest,
          expected |-> packet_length, got |-> packet_size]

\* a comparison that reports every difference of the two sizes
SizeCompareAnyDifference(packet_length, packet_size, body) ==
    IF packet_length = packet_size
    THEN [tag |-> "Ok", packet |-> body.packet, rest |-> body.rest,
          expected |-> packet_length, got |-> packet_size]
    ELSE [tag |-> "PacketSizeMismatch", packet |-> NoGeneric, rest |-> body.rest,
          expected |-> packet_length, got |-> packet_size]

\* lines 104-119: the declared length against packet.byte_size()
SizeCompare(packet_length, packet_size, body) ==
    IF packet_length = packet_size
    THEN [tag |-> "Ok", packet |-> body.packet, rest |-> body.rest,
          expected |-> packet_length, got |-> packet_size]
    ELSE IF packet_length < packet_size
    THEN [tag |-> "PacketSizeMismatch", packet |-> NoGeneric, rest |-> body.rest,
          expected |-> packet_length, got |-> packet_size]
    ELSE Drain(packet_length, packet_size, body,
               ThenExact(Start(body.rest), packet_length - packet_size))

SizeCheck(kind, packet_length, body) ==
    IF body.tag # "Ok" THEN ReadError(body.tag, body.rest)
    ELSE SizeCompare(packet_length, ByteSize(kind, body.packet), body)

\* lines 98-102; VarInt::new(*packet_length - 1) does not return for a
\* negative argument
ReadBody(kind, body_length, r) ==
    IF VarIntTryFrom(body_length).tag # "Ok" THEN ReadError("Abort", r)
    ELSE SizeCheck(kind, body_length, BodyRead(kind, r, body_length))

\* lines 82-96, for packet_id = Some(..)
AfterPacketLength(kind, packet_id, packet_length) ==
    IF packet_length.tag # "Ok" THEN ReadError(packet_length.tag, packet_length.rest)
    ELSE IF packet_length.rest = <<>> THEN ReadError("Io", <<>>)
    ELSE IF Head(packet_length.rest) # packet_id
    THEN InvalidPacketIdBranch(packet_length.value, packet_id, Head(packet_length.rest),
                               Tail(packet_length.rest))
    ELSE ReadBody(kind, packet_length.value - 1, Tail(packet_length.rest))

\* read_packet_general for a Managed packet type
read_packet_general(s, kind, packet_id) == AfterPacketLength(kind, packet_id, VarIntRead(s))

\* ------------------------------------------------------------------------
\* packets/packet_write.rs: write_packet_general
\* ------------------------------------------------------------------------

\* the buffer write_packet_general hands to write_all: the size, the packet
\* ID when there is one (packet_id >= 0), the packet data
write_packet_general(kind, packet, byte_size, packet_id) ==
    VarIntWrite(byte_size)
        \o (IF packet_id >= 0 THEN <<packet_id>> ELSE <<>>)
        \o BodyWrite(kind, packet)

\* WritePacketExt<Managed>::write_packet
write_packet(kind, packet, packet_id) ==
    write_packet_general(kind, packet, ByteSize(kind, packet) + 1, packet_id)

\* WritePacketExt<Manual>::write_packet
write_packet_manual(kind, packet) ==
    write_packet_general(kind, packet, ByteSize(kind, packet), -1)

VersionedFrame(kind, packet, packet_id) ==
    IF packet_id = NoPacketId THEN [tag |-> "InvalidPacketId", frame |-> <<>>]
    ELSE [tag |-> "Ok",
          frame |-> write_packet_general(kind, packet, ByteSize(kind, packet) + 1,
                                         packet_id)]

\* WriteVersionedPacketExt::write_packet_versioned for PlayDisconnect, up
\* to write_all: the frame, or InvalidPacketId and no frame
write_packet_versioned(kind, packet, v) == VersionedFrame(kind, packet, protocol_id(v))

\* ------------------------------------------------------------------------
\* What a client sends: the bytes the proxy finds on the client socket
\* ------------------------------------------------------------------------

\* the most packets a client sends between LoginStart and its response
MaxStrays == 4

\* the most bytes a client leaves in a frame after the fields of the packet
MaxTrailing == 2

\* a well-formed frame: the length of ID and body, the ID, the body
Frame(id, body) == VarIntWrite(Len(body) + 1) \o <<id>> \o body

\* 47 in one byte, and 47 in two bytes (a VarInt with a padding group)
ProtocolEncodings == {<<47>>, <<175, 0>>}

\* the Handshake frame for a server address and the port 25565
ClientHandshakeTo(protocol, server_address, next_state) ==
    Frame(0, protocol \o VarIntWrite(Len(server_address)) \o server_address
                 \o <<99, 221>> \o <<next_state>>)

\* the Handshake frame for the server address "h"
ClientHandshake(protocol, next_state) == ClientHandshakeTo(protocol, <<104>>, next_state)

\* "A", and one byte that is not UTF-8
ClientUsernames == {<<65>>, <<255>>}

Trailings == {0, MaxTrailing}

Pad(n) == [i \in 1..n |-> 238]

ClientLoginStart(username, trailing) ==
    Frame(0, <<Len(username)>> \o username \o Pad(trailing))

\* packets of the login or configuration phase that are not the response
StrayFrames == {Frame(0, <<>>), Frame(1, <<170, 187>>)}

RECURSIVE SeqsUpTo(_, _)
SeqsUpTo(S, n) ==
    IF n = 0 THEN {<<>>}
    ELSE SeqsUpTo(S, n - 1) \cup {Append(q, x) : q \in SeqsUpTo(S, n - 1), x \in S}

ClientUuid == Zeros(UuidLen - 2) \o <<10, 188>>

\* no property; one signed property; one unsigned property; a signed
\* property and an unsigned one
ClientProperties ==
    {<<0>>, <<1, 1, 110, 1, 118, 1, 1, 115>>, <<1, 1, 110, 1, 118, 0>>,
     <<2, 1, 110, 1, 118, 1, 1, 115, 1, 109, 1, 119, 0>>}

\* version 1, the client address "a", the uuid, the username "B", the
\* properties, and bytes the field parser does not reach
ClientPayload(properties, trailing) ==
    <<1>> \o <<1, 97>> \o ClientUuid \o <<1, 66>> \o properties \o Pad(trailing)

\* a VarInt as the client puts it on the wire: five bytes for a negative one
WireVarInt(v) ==
    IF v >= 0 THEN VarIntWrite(v)
    ELSE <<128 + (v % 128), 128 + ((v \div 128) % 128), 128 + ((v \div 16384) % 128),
           128 + ((v \div 2097152) % 128), (v \div 268435456) % 16>>

ResponseBody(message_id, key, payload) ==
    WireVarInt(message_id) \o <<1>> \o HmacSha256(key, payload) \o payload

\* the frame Velocity answers the plugin request with, signed with key
ClientResponse(message_id, key, properties, trailing) ==
    Frame(2, ResponseBody(message_id, key, ClientPayload(properties, trailing)))

\* what the client sends after the response
ClientTails == {<<>>, <<2, 16, 32>>}

Secret == <<115>>

WrongKey == <<120>>

ConnectionIds == {7}

\* the protocol versions around the limits of PlayDisconnect::protocol_id,
\* a modern version, and -1
VersionEncodings ==
    {VarIntWrite(v) : v \in {0, 66, 67, 79, 80, 317, 318, 331, 332, 340, 341, 765}}
        \cup {<<255, 255, 255, 255, 15>>}

\* a login with every choice of the fields and no stray packet
FieldScripts ==
    [protocol : ProtocolEncodings,
     server_address : {<<104>>}, next_state : {2}, username : ClientUsernames,
     login_trailing : Trailings, strays : {<<>>}, connection_id : ConnectionIds,
     id_offset : {0, 1}, key : {Secret, WrongKey}, properties : ClientProperties,
     response_trailing : Trailings, tail : ClientTails, short : {"None"}]

\* a login with stray packets before a response that verifies
StrayScripts ==
    [protocol : {<<47>>},
     server_address : {<<104>>}, next_state : {2}, username : {<<65>>}, login_trailing : {0},
     strays : SeqsUpTo(StrayFrames, MaxStrays), connection_id : ConnectionIds,
     id_offset : {0}, key : {Secret}, properties : {<<0>>}, response_trailing : {0},
     tail : ClientTails, short : {"None"}]

\* a login of every protocol version, and one frame of it that declares
\* less than it holds
VersionScripts ==
    [protocol : VersionEncodings,
     server_address : {<<104>>}, next_state : {2}, username : {<<65>>},
     login_trailing : {0}, strays : {<<>>}, connection_id : ConnectionIds,
     id_offset : {0}, key : {Secret}, properties : {<<0>>}, response_trailing : {0},
     tail : {<<>>}, short : {"None", "Handshake", "LoginStart", "VelocityLoginPluginResponse"}]

\* a username one byte longer than the 16 a LoginStart may carry
LongUsername == [i \in 1..17 |-> 65]

\* a login under the long username, all else in order
LongNameScripts ==
    [protocol : {<<47>>},
     server_address : {<<104>>}, next_state : {2}, username : {LongUsername},
     login_trailing : {0}, strays : {<<>>}, connection_id : ConnectionIds,
     id_offset : {0}, key : {Secret}, properties : {<<0>>}, response_trailing : {0},
     tail : ClientTails, short : {"None"}]

\* the ids the counter of the acceptor hands out once it has wrapped
WrappedIds == {I32Min, -1}

\* a login on a connection with a wrapped id, the response echoing the id
WrappedScripts ==
    [protocol : {<<47>>},
     server_address : {<<104>>}, next_state : {2}, username : {<<65>>}, login_trailing : {0},
     strays : {<<>>}, connection_id : WrappedIds, id_offset : {0}, key : {Secret},
     properties : {<<0>>}, response_trailing : {0}, tail : ClientTails,
     short : {"None"}]

\* a server address of n bytes 'h'
AddressOfLength(n) == [i \in 1..n |-> 104]

\* the longest server address with which "<address> NUL a NUL abc" is still
\* an MCString, and the one a byte longer
LongAddresses == {AddressOfLength(MCStringMax - 6), AddressOfLength(MCStringMax - 5)}

\* "h" NUL "FML" NUL, the address a modded client sends
NulAddress == <<104, 0, 70, 77, 76, 0>>

\* a login under each of these addresses, all else in order
AddressScripts ==
    [protocol : {<<47>>}, server_address : LongAddresses \cup {NulAddress},
     next_state : {2}, username : {<<65>>}, login_trailing : {0}, strays : {<<>>},
     connection_id : ConnectionIds, id_offset : {0}, key : {Secret},
     properties : {<<0>>, <<1, 1, 110, 1, 118, 0>>}, response_trailing : {0},
     tail : {<<>>}, short : {"None"}]

LoginScripts ==
    FieldScripts \cup StrayScripts \cup VersionScripts \cup LongNameScripts
        \cup WrappedScripts \cup AddressScripts

\* status, transfer, and a next_state that is none of the three
OtherScripts ==
    [protocol : ProtocolEncodings,
     server_address : {<<104>>}, next_state : {1, 3, 4}, username : {<<>>},
     login_trailing : {0}, strays : {<<>>}, connection_id : ConnectionIds,
     id_offset : {0}, key : {Secret}, properties : {<<0>>}, response_trailing : {0},
     tail : {<<>>, <<1, 0>>}, short : {"None", "Handshake"}]

\* the length a frame declares when the client understates it: one byte
\* less than it holds, and for the response less than its fixed fields
UnderstatedLength(kind, frame) ==
    IF kind = "VelocityLoginPluginResponse" THEN 2 ELSE frame[1] - 1

\* the frame of kind as the script sends it (its length prefix is one byte)
Sent(s, kind, frame) ==
    IF s.short = kind THEN <<UnderstatedLength(kind, frame)>> \o Tail(frame) ELSE frame

LoginPart(s) ==
    Sent(s, "LoginStart", ClientLoginStart(s.username, s.login_trailing))
        \o Flatten(s.strays)
        \o Sent(s, "VelocityLoginPluginResponse",
                ClientResponse(s.connection_id + s.id_offset, s.key, s.properties,
                               s.response_trailing))

\* a connection that opens with a frame of another ID, with two frames of
\* declared length 0, or with nothing
BrokenStartScripts ==
    [protocol : {<<47>>}, server_address : {<<104>>}, next_state : {1, 2},
     username : {<<65>>}, login_trailing : {0}, strays : {<<>>},
     connection_id : ConnectionIds, id_offset : {0}, key : {Secret},
     properties : {<<0>>}, response_trailing : {0}, tail : {<<>>},
     short : {"WrongId", "ZeroLength", "Silent"}]

\* a frame (its length prefix one byte) under another ID
WithId(frame, id) == <<frame[1], id>> \o Drop(frame, 2)

FirstFrame(s, frame) ==
    IF s.short = "WrongId" THEN WithId(frame, 1) ELSE Sent(s, "Handshake", frame)

ClientStream(s) ==
    IF s.short = "Silent" THEN <<>>
    ELSE IF s.short = "ZeroLength" THEN <<0, 0>>
    ELSE FirstFrame(s, ClientHandshakeTo(s.protocol, s.server_address, s.next_state))
             \o (IF s.next_state = 2 THEN LoginPart(s) ELSE <<>>)
             \o s.tail

\* ------------------------------------------------------------------------
\* connection.rs: Connection::handle
\* ------------------------------------------------------------------------

VARIABLES
    pc,                  \* where handle is
    cin,                 \* the bytes of the client socket not read yet
    client_out,          \* the frames written to the client socket
    backend_out,         \* the frames written to the backend socket
    spliced,             \* the bytes copy_bidirectional moved to the backend
    handshake,           \* let mut handshake
    login_start,         \* let mut login_start
    response,            \* the response buffer_until_response returned
    serverbound_buffer,  \* the Vec of buffer_until_response
    forwarded,           \* how far the loop over the buffer has come
    connection_id,       \* self.connection_id
    secret,              \* the secret handle is given
    reads,               \* history: every read_packet, its stream and result
    script,              \* history: what the client set out to send
    protocol,            \* let protocol = *handshake.protocol_version
    cancelled,           \* the CancellationToken has fired
    disconnect_result,   \* what write_packet_versioned returned, "None" before
    trusted_ips,         \* config.trusted_ips
    client_adress,       \* the address accept() returned last
    accepted,            \* history: how many connections accept() has returned
    spawned,             \* history: the ids handed to handle_connection, in order
    backends,            \* history: how many backend connections were opened
    bin,                 \* the bytes of the backend socket not read yet
    relayed,             \* the bytes copy_bidirectional moved to the client
    client_eof,          \* the copy has seen the end of the client's stream
    backend_eof          \* the copy has seen the end of the backend's stream

vars ==
    <<pc, cin, client_out, backend_out, spliced, handshake, login_start, response,
      serverbound_buffer, forwarded, connection_id, secret, reads, script, protocol,
      cancelled, disconnect_result, trusted_ips, client_adress, accepted, spawned,
      backends, bin, relayed, client_eof, backend_eof>>

\* what belongs to copy_bidirectional alone
copyVars == <<bin, relayed, client_eof, backend_eof>>

\* what the backend sends once the login has reached it: one frame of
\* length 2
BackendStream == <<2, 3, 9>>

\* what belongs to the acceptor loop of main alone
acceptorVars == <<trusted_ips, client_adress, accepted, spawned, backends>>

\* no address
NoAddress == "none"

\* the connection as ParitalConnection::connect_to_backend returns it
Paired(s) ==
    /\ pc = "Paired"
    /\ cin = ClientStream(s)
    /\ client_out = <<>>
    /\ backend_out = <<>>
    /\ spliced = <<>>
    /\ handshake = NoHandshake
    /\ login_start = NoLoginStart
    /\ response = NoResponse
    /\ serverbound_buffer = <<>>
    /\ forwarded = 0
    /\ connection_id = s.connection_id
    /\ secret = Secret
    /\ reads = <<>>
    /\ script = s
    /\ protocol = 0
    /\ cancelled = FALSE
    /\ disconnect_result = "None"
    /\ trusted_ips = {}
    /\ client_adress = NoAddress
    /\ accepted = 1
    /\ spawned = <<s.connection_id>>
    /\ backends = 1
    /\ bin = BackendStream
    /\ relayed = <<>>
    /\ client_eof = FALSE
    /\ backend_eof = FALSE

Init == \E s \in LoginScripts \cup OtherScripts \cup BrokenStartScripts : Paired(s)

\* a panic unwinds the task; every other failure returns from handle
Stopped(tag) == IF tag = "Abort" THEN "Aborted" ELSE "Terminated"

Recorded(kind, r) == reads' = Append(reads, [kind |-> kind, src |-> cin, res |-> r])

\* a match that lets a transfer go on as a login
AfterHandshakeTransferAsLogin(next_state) ==
    CASE next_state = 1 -> "StatusHandshake"
      [] next_state \in {2, 3} -> "AwaitLoginStart"
      [] OTHER -> "Terminated"

\* a match that treats an unknown next_state as a status request
AfterHandshakeUnknownAsStatus(next_state) ==
    CASE next_state = 2 -> "AwaitLoginStart"
      [] next_state = 3 -> "Terminated"
      [] OTHER -> "StatusHandshake"

\* match handshake.next_state
AfterHandshake(next_state) ==
    CASE next_state = 1 -> "StatusHandshake"
      [] next_state = 2 -> "AwaitLoginStart"
      [] OTHER -> "Terminated"

\* the wrong field of the Handshake
CapturedNextState(h) == h.next_state.value

\* let protocol = *handshake.protocol_version
CapturedProtocol(h) == h.protocol_version.value

HandshakeWasRead(r) ==
    /\ Recorded("Handshake", r)
    /\ cin' = r.rest
    /\ handshake' = IF r.tag = "Ok" THEN r.packet ELSE handshake
    /\ protocol' = IF r.tag = "Ok" THEN CapturedProtocol(r.packet) ELSE protocol
    /\ pc' = IF r.tag = "Ok" THEN AfterHandshake(r.packet.next_state.value)
             ELSE Stopped(r.tag)
    /\ UNCHANGED <<cancelled, disconnect_result>>
    /\ UNCHANGED acceptorVars
    /\ UNCHANGED copyVars
    /\ UNCHANGED <<client_out, backend_out, spliced, login_start, response,
                   serverbound_buffer, forwarded, connection_id, secret, script>>

\* self.client.read_packet::<Handshake>()
ReadHandshake ==
    /\ pc = "Paired"
    /\ HandshakeWasRead(read_packet_general(cin, "Handshake", HandshakeId))

\* self.backend.write_packet(..): write_all delivers the frame or fails
BackendWrite(frame, ok, then) ==
    /\ backend_out' = IF ok THEN Append(backend_out, frame) ELSE backend_out
    /\ pc' = IF ok THEN then ELSE "Terminated"

\* forward_status up to copy_bidirectional
ForwardStatusHandshake ==
    /\ pc = "StatusHandshake"
    /\ IF BodyWriteAborts("Handshake", handshake)
       THEN pc' = "Aborted" /\ backend_out' = backend_out
       ELSE \E ok \in BOOLEAN :
                BackendWrite(write_packet("Handshake", handshake, HandshakeId), ok,
                             "StatusForwarding")
    /\ UNCHANGED <<cin, client_out, spliced, handshake, login_start, response,
                   serverbound_buffer, forwarded, connection_id, secret, reads, script>>
    /\ UNCHANGED <<protocol, cancelled, disconnect_result>>
    /\ UNCHANGED acceptorVars
    /\ UNCHANGED copyVars

LoginStartWasRead(r) ==
    /\ Recorded("LoginStart", r)
    /\ cin' = r.rest
    /\ login_start' = IF r.tag = "Ok" THEN r.packet ELSE login_start
    /\ pc' = IF r.tag = "Ok" THEN "SendPluginRequest" ELSE Stopped(r.tag)
    /\ UNCHANGED <<client_out, backend_out, spliced, handshake, response,
                   serverbound_buffer, forwarded, connection_id, secret, script>>
    /\ UNCHANGED <<protocol, cancelled, disconnect_result>>
    /\ UNCHANGED acceptorVars
    /\ UNCHANGED copyVars

\* self.client.read_packet::<LoginStart>()
ReadLoginStart ==
    /\ pc = "AwaitLoginStart"
    /\ LoginStartWasRead(read_packet_general(cin, "LoginStart", LoginStartId))

RequestWritten(q, ok) ==
    /\ client_out' =
           IF q.tag = "Ok" /\ ok
           THEN Append(client_out,
                       write_packet("VelocityLoginPluginRequest", q.packet,
                                    VelocityLoginPluginRequestId))
           ELSE client_out
    /\ pc' = IF q.tag # "Ok" THEN "Aborted"
             ELSE IF ok THEN "AwaitPluginResponse" ELSE "Terminated"

\* self.client.write_packet(&VelocityLoginPluginRequest::new(self.connection_id))
SendPluginRequest ==
    /\ pc = "SendPluginRequest"
    /\ \E ok \in BOOLEAN : RequestWritten(VelocityLoginPluginRequestNew(connection_id), ok)
    /\ UNCHANGED <<cin, backend_out, spliced, handshake, login_start, response,
                   serverbound_buffer, forwarded, connection_id, secret, reads, script>>
    /\ UNCHANGED <<protocol, cancelled, disconnect_result>>
    /\ UNCHANGED acceptorVars
    /\ UNCHANGED copyVars

\* a buffer that grows at the front
BufferPushFront(buffer, packet) == <<packet>> \o buffer

\* serverbound_buffer.push(packet)
BufferPush(buffer, packet) == Append(buffer, packet)

\* the match of buffer_until_response on what read_packet returned
AfterResponseRead(r) ==
    CASE r.tag = "Ok" -> "Validate"
      [] r.tag = "InvalidPacketId" -> "AwaitPluginResponse"
      [] r.tag = "PacketSizeMismatch" ->
             IF r.expected < r.got THEN "Terminated" ELSE "AwaitPluginResponse"
      [] OTHER -> Stopped(r.tag)

ResponseWasRead(r) ==
    /\ Recorded("VelocityLoginPluginResponse", r)
    /\ cin' = r.rest
    /\ response' = IF r.tag = "Ok" THEN r.packet ELSE response
    /\ serverbound_buffer' =
           IF r.tag = "InvalidPacketId" THEN BufferPush(serverbound_buffer, r.packet)
           ELSE serverbound_buffer
    /\ pc' = AfterResponseRead(r)
    /\ UNCHANGED <<client_out, backend_out, spliced, handshake, login_start, forwarded,
                   connection_id, secret, script>>
    /\ UNCHANGED <<protocol, cancelled, disconnect_result>>
    /\ UNCHANGED acceptorVars
    /\ UNCHANGED copyVars

\* one turn of the loop of buffer_until_response
BufferUntilResponse ==
    /\ pc = "AwaitPluginResponse"
    /\ ResponseWasRead(read_packet_general(cin, "VelocityLoginPluginResponse",
                                           VelocityLoginPluginResponseId))

\* a check that accepts every message id a client can send
MessageIdPresent(r, id) == r.connection_id.value >= 0

\* *response.connection_id == self.connection_id
MessageIdMatches(r, id) == r.connection_id.value = id

\* the Disconnect of the failed verification, delivered or not
DisconnectWritten(ok) ==
    /\ client_out' =
           IF ok
           THEN Append(client_out,
                       write_packet("Disconnect", DisconnectReason(VerifyFailedReason),
                                    DisconnectId))
           ELSE client_out
    /\ pc' = "Terminated"
    /\ UNCHANGED <<handshake, login_start>>

\* the LoginStart left as the client sent it
RewrittenHandshakeOnly(h) ==
    /\ handshake' = h.packet
    /\ login_start' = login_start
    /\ pc' = IF h.tag = "Ok" THEN "WriteHandshake" ELSE "Aborted"
    /\ client_out' = client_out

\* handshake.insert_forwarding_data(..); login_start.username = response.username
Rewritten(h) ==
    /\ handshake' = h.packet
    /\ login_start' = [login_start EXCEPT !.username = response.username]
    /\ pc' = IF h.tag = "Ok" THEN "WriteHandshake" ELSE "Aborted"
    /\ client_out' = client_out

\* lines 94-129 of handle: the two checks and what follows each
Validate ==
    /\ pc = "Validate"
    /\ IF ~MessageIdMatches(response, connection_id)
       THEN pc' = "Terminated" /\ UNCHANGED <<client_out, handshake, login_start>>
       ELSE IF ~validate(response, secret)
       THEN \E ok \in BOOLEAN : DisconnectWritten(ok)
       ELSE Rewritten(insert_forwarding_data(handshake, response.client_address,
                                             response.player_uuid, response.properties))
    /\ UNCHANGED <<cin, backend_out, spliced, response, serverbound_buffer, forwarded,
                   connection_id, secret, reads, script>>
    /\ UNCHANGED <<protocol, cancelled, disconnect_result>>
    /\ UNCHANGED acceptorVars
    /\ UNCHANGED copyVars

\* self.backend.write_packet(&handshake)
WriteHandshake ==
    /\ pc = "WriteHandshake"
    /\ IF BodyWriteAborts("Handshake", handshake)
       THEN pc' = "Aborted" /\ backend_out' = backend_out
       ELSE \E ok \in BOOLEAN :
                BackendWrite(write_packet("Handshake", handshake, HandshakeId), ok,
                             "WriteLoginStart")
    /\ UNCHANGED <<cin, client_out, spliced, handshake, login_start, response,
                   serverbound_buffer, forwarded, connection_id, secret, reads, script>>
    /\ UNCHANGED <<protocol, cancelled, disconnect_result>>
    /\ UNCHANGED acceptorVars
    /\ UNCHANGED copyVars

\* where handle goes once i packets of the buffer are written
AfterBuffered(i) == IF i >= Len(serverbound_buffer) THEN "Forwarding" ELSE "WriteBuffered"

\* self.backend.write_packet(&login_start)
WriteLoginStart ==
    /\ pc = "WriteLoginStart"
    /\ \E ok \in BOOLEAN :
           BackendWrite(write_packet("LoginStart", login_start, LoginStartId), ok,
                        AfterBuffered(0))
    /\ forwarded' = 0
    /\ UNCHANGED <<cin, client_out, spliced, handshake, login_start, response,
                   serverbound_buffer, connection_id, secret, reads, script>>
    /\ UNCHANGED <<protocol, cancelled, disconnect_result>>
    /\ UNCHANGED acceptorVars
    /\ UNCHANGED copyVars

\* the packet the loop over &buffer reaches after i turns
BufferedPacket(buffer, i) == buffer[i + 1]

\* the trace! of line 144 indexes packet.data[0]: with trace logging on, a
\* packet without data panics
BufferedWritten(packet) ==
    \/ /\ packet.data = <<>>
       /\ pc' = "Aborted"
       /\ backend_out' = backend_out
    \/ \E ok \in BOOLEAN :
           BackendWrite(write_packet_manual("GenericPacket", packet), ok,
                        AfterBuffered(forwarded + 1))

\* one turn of the loop of lines 143-149
WriteBuffered ==
    /\ pc = "WriteBuffered"
    /\ BufferedWritten(BufferedPacket(serverbound_buffer, forwarded))
    /\ forwarded' = forwarded + 1
    /\ UNCHANGED <<cin, client_out, spliced, handshake, login_start, response,
                   serverbound_buffer, connection_id, secret, reads, script>>
    /\ UNCHANGED <<protocol, cancelled, disconnect_result>>
    /\ UNCHANGED acceptorVars
    /\ UNCHANGED copyVars

\* copy_bidirectional, the client to backend half: what the client sent
\* after the last packet the proxy read goes to the backend as it is
CopyClientToBackend ==
    /\ pc \in {"Forwarding", "StatusForwarding"}
    /\ ~client_eof
    /\ cin # <<>>
    /\ spliced' = spliced \o cin
    /\ cin' = <<>>
    /\ UNCHANGED <<pc, client_out, backend_out, handshake, login_start, response,
                   serverbound_buffer, forwarded, connection_id, secret, reads, script>>
    /\ UNCHANGED <<protocol, cancelled, disconnect_result>>
    /\ UNCHANGED acceptorVars
    /\ UNCHANGED copyVars

\* copy_bidirectional, the backend to client half: a read of the backend
\* socket returns some of the bytes that have arrived, and they go to the
\* client as they are
CopyBackendToClient ==
    /\ pc \in {"Forwarding", "StatusForwarding"}
    /\ ~backend_eof
    /\ \E n \in 1..Len(bin) :
           /\ relayed' = relayed \o Take(bin, n)
           /\ bin' = Drop(bin, n)
    /\ UNCHANGED <<pc, cin, client_out, backend_out, spliced, handshake, login_start,
                   response, serverbound_buffer, forwarded, connection_id, secret, reads,
                   script, protocol, cancelled, disconnect_result, client_eof,
                   backend_eof>>
    /\ UNCHANGED acceptorVars

\* copy_bidirectional returns Ok once both halves have seen the end of
\* their stream
AfterEof(other_eof, at) == IF other_eof THEN "Terminated" ELSE at

\* copy_bidirectional: the client's stream ends; the half towards the
\* backend shuts the backend's write side down and is done
ClientEof ==
    /\ pc \in {"Forwarding", "StatusForwarding"}
    /\ ~client_eof
    /\ cin = <<>>
    /\ client_eof' = TRUE
    /\ pc' = AfterEof(backend_eof, pc)
    /\ UNCHANGED <<cin, client_out, backend_out, spliced, handshake, login_start,
                   response, serverbound_buffer, forwarded, connection_id, secret, reads,
                   script, protocol, cancelled, disconnect_result, bin, relayed,
                   backend_eof>>
    /\ UNCHANGED acceptorVars

\* copy_bidirectional: the backend's stream ends
BackendEof ==
    /\ pc \in {"Forwarding", "StatusForwarding"}
    /\ ~backend_eof
    /\ bin = <<>>
    /\ backend_eof' = TRUE
    /\ pc' = AfterEof(client_eof, pc)
    /\ UNCHANGED <<cin, client_out, backend_out, spliced, handshake, login_start,
                   response, serverbound_buffer, forwarded, connection_id, secret, reads,
                   script, protocol, cancelled, disconnect_result, bin, relayed,
                   client_eof>>
    /\ UNCHANGED acceptorVars

\* copy_bidirectional returns Err: a read or a write of either half failed
ForwardingEnds ==
    /\ pc \in {"Forwarding", "StatusForwarding"}
    /\ pc' = "Terminated"
    /\ UNCHANGED <<cin, client_out, backend_out, spliced, handshake, login_start,
                   response, serverbound_buffer, forwarded, connection_id, secret, reads,
                   script>>
    /\ UNCHANGED <<protocol, cancelled, disconnect_result>>
    /\ UNCHANGED acceptorVars
    /\ UNCHANGED copyVars

\* the shutdown hook cancels the token; every task sees it at once
CancelFires ==
    /\ ~cancelled
    /\ pc \notin {"Terminated", "Aborted"}
    /\ cancelled' = TRUE
    /\ UNCHANGED <<pc, cin, client_out, backend_out, spliced, handshake, login_start,
                   response, serverbound_buffer, forwarded, connection_id, secret, reads,
                   script, protocol, disconnect_result>>
    /\ UNCHANGED acceptorVars
    /\ UNCHANGED copyVars

\* self.client.write_packet_versioned(&disconnect_packet, protocol_version)
ShutdownWritten(w, ok) ==
    /\ client_out' = IF w.tag = "Ok" /\ ok THEN Append(client_out, w.frame) ELSE client_out
    /\ disconnect_result' = IF w.tag # "Ok" THEN w.tag ELSE IF ok THEN "Ok" ELSE "Io"

\* forward_connection: the branch of select! that cancel.cancelled() wins
Shutdown ==
    /\ pc = "Forwarding"
    /\ cancelled
    /\ \E ok \in BOOLEAN :
           ShutdownWritten(write_packet_versioned("PlayDisconnect",
                                                  PlayDisconnectReason(ShuttingDownReason),
                                                  protocol),
                           ok)
    /\ pc' = "Terminated"
    /\ UNCHANGED <<cin, backend_out, spliced, handshake, login_start, response,
                   serverbound_buffer, forwarded, connection_id, secret, reads, script,
                   protocol, cancelled>>
    /\ UNCHANGED acceptorVars
    /\ UNCHANGED copyVars

Next ==
    \/ ReadHandshake
    \/ ForwardStatusHandshake
    \/ ReadLoginStart
    \/ SendPluginRequest
    \/ BufferUntilResponse
    \/ Validate
    \/ WriteHandshake
    \/ WriteLoginStart
    \/ WriteBuffered
    \/ CopyClientToBackend
    \/ CopyBackendToClient
    \/ ClientEof
    \/ BackendEof
    \/ ForwardingEnds
    \/ CancelFires
    \/ Shutdown

Spec == Init /\ [][Next]_vars

\* the runtime polls a task whose select! has a branch that is ready
FairSpec == Spec /\ WF_vars(Shutdown)

\* ------------------------------------------------------------------------
\* main.rs: the acceptor loop and the rejection of untrusted peers
\* ------------------------------------------------------------------------

\* the most connections the listener hands out in one run
MaxPeers == 3

\* an address of the configured list, and one that is not on it
TrustedIp == "10.0.0.1"

OtherIp == "10.0.0.2"

\* what a peer sends after connecting: a handshake of every next_state, one
\* that declares less than it holds, and a login with all that follows
PeerScripts ==
    [protocol : {<<47>>},
     server_address : {<<104>>}, next_state : {1, 2, 3, 4}, username : {<<65>>},
     login_trailing : {0}, strays : {<<>>}, connection_id : ConnectionIds,
     id_offset : {0}, key : {Secret}, properties : {<<0>>}, response_trailing : {0},
     tail : {<<>>}, short : {"None", "Handshake"}]

\* a peer that closes without sending
SilentPeer ==
    [protocol |-> <<47>>,
     server_address |-> <<104>>, next_state |-> 1, username |-> <<>>, login_trailing |-> 0,
     strays |-> <<>>, connection_id |-> 0, id_offset |-> 0, key |-> Secret,
     properties |-> <<0>>, response_trailing |-> 0, tail |-> <<>>, short |-> "Silent"]

PeerStream(s) == IF s.short = "Silent" THEN <<>> ELSE ClientStream(s)

\* "You are not allowed to connect to this server directly!"
UntrustedReason ==
    <<89, 111, 117, 32, 97, 114, 101, 32, 110, 111, 116, 32, 97, 108, 108, 111, 119,
      101, 100, 32, 116, 111, 32, 99, 111, 110, 110, 101, 99, 116, 32, 116, 111, 32,
      116, 104, 105, 115, 32, 115, 101, 114, 118, 101, 114, 32, 100, 105, 114, 101,
      99, 116, 108, 121, 33>>

\* !config.trusted_ips.is_empty() && !config.trusted_ips.contains(&client_adress.ip())
IsUntrustedAlways(ips, ip) == ip \notin ips

IsUntrusted(ips, ip) == ips # {} /\ ip \notin ips

\* connection_id.wrapping_add(1) on an i32
wrapping_add(id) == IF id = 2147483647 THEN I32Min ELSE id + 1

\* main before the loop: the listener is bound, let mut connection_id = 0i32;
\* the counter is also taken up shortly before it wraps
AcceptorInit ==
    /\ pc = "Accepting"
    /\ trusted_ips \in {{}, {TrustedIp}}
    /\ connection_id \in {0, 2147483646}
    /\ client_adress = NoAddress
    /\ accepted = 0
    /\ spawned = <<>>
    /\ backends = 0
    /\ cin = <<>>
    /\ client_out = <<>>
    /\ backend_out = <<>>
    /\ spliced = <<>>
    /\ handshake = NoHandshake
    /\ login_start = NoLoginStart
    /\ response = NoResponse
    /\ serverbound_buffer = <<>>
    /\ forwarded = 0
    /\ secret = Secret
    /\ reads = <<>>
    /\ script = SilentPeer
    /\ protocol = 0
    /\ cancelled = FALSE
    /\ disconnect_result = "None"
    /\ bin = <<>>
    /\ relayed = <<>>
    /\ client_eof = FALSE
    /\ backend_eof = FALSE

\* what the acceptor loop never touches
taskVars ==
    <<backend_out, spliced, login_start, response, serverbound_buffer, forwarded, secret,
      protocol, cancelled, disconnect_result, bin, relayed, client_eof, backend_eof>>

\* client_listener.accept() returns a connection, and the test of its address
Accept ==
    /\ pc = "Accepting"
    /\ accepted < MaxPeers
    /\ \E ip \in {TrustedIp, OtherIp}, s \in PeerScripts \cup {SilentPeer} :
           /\ client_adress' = ip
           /\ script' = s
           /\ cin' = PeerStream(s)
    /\ accepted' = accepted + 1
    /\ client_out' = <<>>
    /\ reads' = <<>>
    /\ handshake' = NoHandshake
    /\ pc' = IF IsUntrusted(trusted_ips, client_adress') THEN "Rejecting" ELSE "Connecting"
    /\ UNCHANGED <<trusted_ips, connection_id, spawned, backends>>
    /\ UNCHANGED taskVars

\* client_listener.accept() returns Err: while let ends, and main with it
AcceptFails ==
    /\ pc = "Accepting"
    /\ pc' = "ListenerClosed"
    /\ UNCHANGED <<cin, client_out, handshake, connection_id, reads, script>>
    /\ UNCHANGED acceptorVars
    /\ UNCHANGED taskVars

\* a `return` in the body of the loop returns from main; a panic unwinds it
MainStopped(tag) == IF tag = "Abort" THEN "Aborted" ELSE "Returned"

\* a rejection that answers a status request as it answers a login
AfterRejectedHandshakeAnswersStatus(next_state) ==
    IF next_state \in {1, 2} THEN "RejectDisconnect" ELSE "Accepting"

\* match *handshake.next_state of the rejection: only 2 writes; all others
\* go on to shutdown() and continue
AfterRejectedHandshake(next_state) ==
    IF next_state = 2 THEN "RejectDisconnect" ELSE "Accepting"

RejectedHandshakeWasRead(r) ==
    /\ Recorded("Handshake", r)
    /\ cin' = r.rest
    /\ handshake' = IF r.tag = "Ok" THEN r.packet ELSE handshake
    /\ pc' = IF r.tag = "Ok" THEN AfterRejectedHandshake(r.packet.next_state.value)
             ELSE MainStopped(r.tag)

\* client_connection.read_packet::<Handshake>() of the rejection
RejectHandshake ==
    /\ pc = "Rejecting"
    /\ RejectedHandshakeWasRead(read_packet_general(cin, "Handshake", HandshakeId))
    /\ UNCHANGED <<client_out, connection_id, script>>
    /\ UNCHANGED acceptorVars
    /\ UNCHANGED taskVars

\* client_connection.write_packet(&Disconnect::reason(..)), then shutdown()
\* and continue; a failed write returns
RejectDisconnect ==
    /\ pc = "RejectDisconnect"
    /\ \E ok \in BOOLEAN :
           /\ client_out' =
                  IF ok
                  THEN Append(client_out,
                              write_packet("Disconnect", DisconnectReason(UntrustedReason),
                                           DisconnectId))
                  ELSE client_out
           /\ pc' = IF ok THEN "Accepting" ELSE "Returned"
    /\ UNCHANGED <<cin, handshake, connection_id, reads, script>>
    /\ UNCHANGED acceptorVars
    /\ UNCHANGED taskVars

\* TcpStream::connect(config.backend_address), set_nodelay on both streams,
\* tokio::task::spawn(handle_connection(..)) and the step of the counter
ConnectBackend ==
    /\ pc = "Connecting"
    /\ \E connected \in BOOLEAN, nodelay \in BOOLEAN :
           /\ backends' = IF connected THEN backends + 1 ELSE backends
           /\ spawned' = IF connected /\ nodelay THEN Append(spawned, connection_id)
                         ELSE spawned
           /\ connection_id' = IF connected /\ nodelay THEN wrapping_add(connection_id)
                               ELSE connection_id
    /\ pc' = "Accepting"
    /\ UNCHANGED <<cin, client_out, handshake, reads, script>>
    /\ UNCHANGED <<trusted_ips, client_adress, accepted>>
    /\ UNCHANGED taskVars

AcceptorNext ==
    \/ Accept
    \/ AcceptFails
    \/ RejectHandshake
    \/ RejectDisconnect
    \/ ConnectBackend

AcceptorSpec == AcceptorInit /\ [][AcceptorNext]_vars

\* ------------------------------------------------------------------------
\* Properties
\* ------------------------------------------------------------------------

\* the connection asked for login
IsLogin == handshake.next_state.value = 2

\* the response that was read has the connection's id and a signature that
\* is the digest of its payload under the secret
ResponseVerified ==
    /\ response # NoResponse
    /\ response.connection_id.value = connection_id
    /\ response.signature = HmacSha256(secret, response.raw_remaining_data)

RECURSIVE ArrivedPackets(_)
\* the packets the reads of the await-response loop handed back with
\* InvalidPacketId, in the order of the reads
ArrivedPackets(rs) ==
    IF rs = <<>> THEN <<>>
    ELSE (IF Head(rs).res.tag = "InvalidPacketId" THEN <<Head(rs).res.packet>> ELSE <<>>)
             \o ArrivedPackets(Tail(rs))

GenericFrames(packets) ==
    [i \in 1..Len(packets) |-> write_packet_manual("GenericPacket", packets[i])]

\* the Handshake that was read with the forwarding data of the response, the
\* LoginStart with the username of the response, the arrived packets
ExpectedBackendFrames ==
    <<write_packet("Handshake",
                   insert_forwarding_data(reads[1].res.packet, response.client_address,
                                          response.player_uuid, response.properties).packet,
                   HandshakeId),
      write_packet("LoginStart", [username |-> response.username], LoginStartId)>>
        \o GenericFrames(ArrivedPackets(reads))

IsPrefix(s, q) == Len(s) <= Len(q) /\ s = Take(q, Len(s))

\* C1: in a Login connection whose response passed both checks, the frames
\* written to the backend are at every moment the first frames of: the
\* rewritten Handshake, the rewritten LoginStart, the buffered packets in the
\* order they arrived; when forwarding starts they are all of them, each once.
C1_BackendFramesInOrder ==
    (IsLogin /\ response # NoResponse) =>
        /\ IsPrefix(backend_out, ExpectedBackendFrames)
        /\ (pc = "Forwarding" => backend_out = ExpectedBackendFrames)

C1_Witness ==
    /\ pc = "Forwarding"
    /\ ResponseVerified
    /\ Len(serverbound_buffer) = 2
    /\ serverbound_buffer[1] # serverbound_buffer[2]
    /\ Len(backend_out) = 4

\* C2: when a client sends packets X1..Xn that are not the response and
\* then a valid response, the frames the backend has after the Handshake and
\* the LoginStart are the frames X1..Xn the client sent, byte for byte.
C2_StrayFramesByteIdentical ==
    (IsLogin /\ pc = "Forwarding") => Drop(backend_out, 2) = script.strays

\* C3: in a Login connection nothing reaches the backend before a response
\* with the connection's id and a verified signature was read, and a
\* connection that ends without such a response has written nothing to it.
C3_NoBackendByteBeforeVerified ==
    IsLogin =>
        /\ (backend_out # <<>> \/ spliced # <<>>) => ResponseVerified
        /\ (pc \in {"Terminated", "Aborted"} /\ ~ResponseVerified) =>
               (backend_out = <<>> /\ spliced = <<>>)

C3_Witness ==
    /\ IsLogin
    /\ backend_out # <<>>
    /\ ResponseVerified
    /\ serverbound_buffer # <<>>

\* the Disconnect frame of the failed verification: ID 0x00 and the reason
\* as a red JSON text component
VerifyFailedFrame ==
    <<86, 0, 84>> \o <<123, 34, 116, 101, 120, 116, 34, 58, 32, 34>> \o VerifyFailedReason
        \o <<34, 44, 32, 34, 99, 111, 108, 111, 114, 34, 58, 32, 34, 114, 101, 100, 34, 125>>

C4_Step ==
    (/\ pc = "Validate"
     /\ pc' # pc
     /\ response.connection_id.value = connection_id
     /\ response.signature # HmacSha256(secret, response.raw_remaining_data)) =>
        /\ pc' = "Terminated"
        /\ backend_out' = backend_out
        /\ \/ client_out' = Append(client_out, VerifyFailedFrame)
           \/ client_out' = client_out

\* C4: a response with the connection's id whose signature does not verify
\* makes the proxy write one Disconnect (ID 0x00, reason "Failed to verify
\* your identity, please rejoin the server") to the client and terminate; it
\* terminates as well when that write fails.
C4_HmacFailureDisconnects == [][C4_Step]_vars

C4_Witness ==
    /\ pc = "Terminated"
    /\ response.connection_id.value = connection_id
    /\ ~ResponseVerified
    /\ Len(client_out) = 2
    /\ client_out[2] = VerifyFailedFrame
    /\ backend_out = <<>>

C5_Step ==
    (pc = "Validate" /\ pc' # pc /\ response.connection_id.value # connection_id) =>
        /\ pc' = "Terminated"
        /\ client_out' = client_out
        /\ backend_out' = backend_out
        /\ spliced' = spliced

\* C5: a response whose message id is not the connection's id ends the
\* connection with nothing more written to the client or to the backend,
\* whether its signature verifies or not.
C5_IdMismatchTerminatesSilently == [][C5_Step]_vars

C5_Witness ==
    /\ pc = "Terminated"
    /\ response # NoResponse
    /\ response.connection_id.value # connection_id
    /\ response.signature = HmacSha256(secret, response.raw_remaining_data)
    /\ Len(client_out) = 1
    /\ backend_out = <<>>

\* the bytes of the stream a read started on, from the first byte after the
\* signature to the last byte of the frame as its length prefix declares it
WireRawPayload(src, length, id) ==
    SubSeq(src, length.bytes_needed + 1 + id.bytes_needed + 1 + SigLen + 1,
           length.bytes_needed + length.value)

\* C6: validate is true exactly when the signature is the keyed digest, under
\* the bytes of the secret, of the wire bytes from after the signature to the
\* declared end of the frame, the bytes the field parser leaves included.
C6_ValidateOverWireBytes ==
    pc = "Validate" =>
        (validate(response, secret)
            <=> response.signature =
                    HmacSha256(secret,
                               WireRawPayload(Last(reads).src, VarIntRead(Last(reads).src),
                                              response.connection_id)))

C6_Witness ==
    /\ pc = "Validate"
    /\ validate(response, secret)
    /\ script.response_trailing > 0
    /\ Len(response.raw_remaining_data) > Len(ReserializedFields(response))

\* the frame a read started on: its declared length and the bytes of it
DeclaredLength(rd) == VarIntRead(rd.src).value

PrefixLength(rd) == VarIntRead(rd.src).bytes_needed

Consumed(rd) == Len(rd.src) - Len(rd.res.rest)

\* C7: a read that finds an ID x other than the expected one returns
\* InvalidPacketId with got = x and a GenericPacket whose bytes are x and the
\* len - 1 bytes of the frame after it.
C7_InvalidPacketIdCarriesFrame ==
    \A i \in 1..Len(reads) :
        reads[i].res.tag = "InvalidPacketId" =>
            /\ reads[i].res.got = reads[i].src[PrefixLength(reads[i]) + 1]
            /\ reads[i].res.packet.data =
                   SubSeq(reads[i].src, PrefixLength(reads[i]) + 1,
                          PrefixLength(reads[i]) + DeclaredLength(reads[i]))

\* C8: a read that returns InvalidPacketId has consumed the length prefix
\* and the declared length, no more and no less.
C8_InvalidPacketIdConsumesFrame ==
    \A i \in 1..Len(reads) :
        reads[i].res.tag = "InvalidPacketId" =>
            Consumed(reads[i]) = PrefixLength(reads[i]) + DeclaredLength(reads[i])

\* C9: a read that returns a packet has consumed the length prefix and the
\* declared length, whatever the packet type and whatever follows the fields.
C9_OkReadConsumesFrame ==
    \A i \in 1..Len(reads) :
        reads[i].res.tag = "Ok" =>
            Consumed(reads[i]) = PrefixLength(reads[i]) + DeclaredLength(reads[i])

FramedRight(frame) == VarIntRead(frame).value = Len(frame) - VarIntRead(frame).bytes_needed

\* C10: the length prefix of every frame the proxy wrote is the number of
\* bytes that follow it in the frame.
C10_WrittenPrefixCountsBytes ==
    /\ \A i \in 1..Len(client_out) : FramedRight(client_out[i])
    /\ \A i \in 1..Len(backend_out) : FramedRight(backend_out[i])

\* the body reader of a read ran past the end the frame declares: the read
\* stopped with the stream where the body reader left it
OverRead(rd) ==
    /\ rd.res.tag \in {"PacketSizeMismatch", "Abort"}
    /\ Consumed(rd) > PrefixLength(rd) + DeclaredLength(rd)

\* C11: a read whose body reader consumed more than the frame declared
\* returns PacketSizeMismatch, it is the last read of the connection, and
\* nothing is written to the backend.
C11_OverReadIsSizeMismatch ==
    \A i \in 1..Len(reads) :
        OverRead(reads[i]) =>
            /\ reads[i].res.tag = "PacketSizeMismatch"
            /\ i = Len(reads)
            /\ backend_out = <<>>
            /\ spliced = <<>>

\* the connection asked for status
IsStatus == handshake.next_state.value = 1

\* C12: in a Status connection the backend receives the Handshake frame the
\* client sent, byte for byte, then the bytes the client sent after it, in
\* order; the proxy writes nothing to the client.
C12_StatusHandshakeVerbatim ==
    IsStatus =>
        /\ client_out = <<>>
        /\ IsPrefix(Flatten(backend_out) \o spliced, ClientStream(script))
        /\ (pc = "StatusForwarding" =>
                backend_out = <<ClientHandshake(script.protocol, script.next_state)>>)

\* C13: a Handshake with next_state = Transfer ends the connection at once:
\* nothing is written to the client or to the backend and the Handshake is
\* the only packet read.
C13_TransferTerminatesSilently ==
    handshake.next_state.value = 3 =>
        /\ pc = "Terminated"
        /\ client_out = <<>>
        /\ backend_out = <<>>
        /\ spliced = <<>>
        /\ Len(reads) = 1
        /\ disconnect_result = "None"

C13_Witness ==
    /\ handshake.next_state.value = 3
    /\ pc = "Terminated"
    /\ Len(reads) = 1
    /\ cin = <<1, 0>>

\* the packet ID of PlayDisconnect as the specification tabulates it, -1
\* where it gives none
TabulatedPlayDisconnectId(v) ==
    IF v < 0 THEN -1
    ELSE IF v < 67 THEN 64
    ELSE IF v < 80 THEN 25
    ELSE IF v < 318 THEN 26
    ELSE IF v < 332 THEN 27
    ELSE IF v <= 340 THEN 26
    ELSE -1

\* the frame of a PlayDisconnect with the reason "The Proxy is shutting
\* down" under a packet ID
ShuttingDownFrame(id) ==
    <<56, id, 54>> \o <<123, 34, 116, 101, 120, 116, 34, 58, 32, 34>> \o ShuttingDownReason
        \o <<34, 44, 32, 34, 99, 111, 108, 111, 114, 34, 58, 32, 34, 114, 101, 100, 34, 125>>

\* the protocol version of the Handshake the client sent
HandshakeVersion == reads[1].res.packet.protocol_version.value

C14_Step ==
    (pc = "Forwarding" /\ cancelled /\ pc' # pc) =>
        /\ pc' = "Terminated"
        /\ backend_out' = backend_out
        /\ spliced' = spliced
        /\ \/ client_out' = client_out
           \/ /\ TabulatedPlayDisconnectId(HandshakeVersion) # -1
              /\ client_out' =
                     Append(client_out,
                            ShuttingDownFrame(TabulatedPlayDisconnectId(HandshakeVersion)))

\* C14: once the token has fired, a connection that is forwarding ends; the
\* step that ends it writes nothing to the backend, copies nothing more, and
\* writes to the client at most the one PlayDisconnect "The Proxy is shutting
\* down" under the packet ID of the Handshake's protocol version, nothing if
\* that version has no ID.
C14_CancelEndsForwarding ==
    /\ [][C14_Step]_vars
    /\ (cancelled /\ pc = "Forwarding") ~> (pc = "Terminated")

C14_Witness ==
    /\ pc = "Terminated"
    /\ cancelled
    /\ disconnect_result = "Ok"
    /\ protocol = 318
    /\ Len(client_out) = 2
    /\ client_out[2] = ShuttingDownFrame(27)

\* {"text":"<reason>","color":"red"}, no whitespace between the tokens
CompactReasonJson(reason) ==
    <<123, 34, 116, 101, 120, 116, 34, 58, 34>> \o reason
        \o <<34, 44, 34, 99, 111, 108, 111, 114, 34, 58, 34, 114, 101, 100, 34, 125>>

\* a Disconnect or PlayDisconnect frame under a packet ID whose body is the
\* compact JSON of the reason
CompactDisconnectFrame(id, reason) ==
    <<Len(CompactReasonJson(reason)) + 2, id, Len(CompactReasonJson(reason))>>
        \o CompactReasonJson(reason)

\* C15: when the token fires on a forwarding connection whose Handshake had
\* protocol version 765 and the client socket takes the write, the client
\* has received a PlayDisconnect with ID 0x1A and the body
\* {"text":"The Proxy is shutting down","color":"red"} when the connection
\* has ended.
C15_ModernVersionDisconnect ==
    (/\ pc = "Terminated"
     /\ disconnect_result \notin {"None", "Io"}
     /\ HandshakeVersion = 765) =>
        client_out[Len(client_out)] = CompactDisconnectFrame(26, ShuttingDownReason)

\* C16: once the token has fired, a connection in StatusForwarding ends, as
\* a connection that is forwarding after a login does.
C16_CancelEndsStatusForwarding ==
    (cancelled /\ pc = "StatusForwarding") ~> (pc = "Terminated")

\* where handle waits for the Handshake, the LoginStart or the response
PreSplicing == {"Paired", "AwaitLoginStart", "AwaitPluginResponse"}

C17_Step ==
    (cancelled /\ pc \in PreSplicing /\ pc' # pc) => pc' \in {"Terminated", "Aborted"}

\* C17: once the token has fired, the next socket I/O of a connection that
\* waits for the Handshake, the LoginStart or the response ends it: it does
\* not go on with the login.
C17_CancelEndsPreSplicing == [][C17_Step]_vars

\* versions at and around every limit of the table, and the ends of i32
ProbeVersions ==
    {I32Min, -1, 0, 47, 66, 67, 79, 80, 317, 318, 331, 332, 340, 341, 765, 2147483647}

\* C18: the packet ID of PlayDisconnect is 0x40 for 0 <= v < 67, 0x19 for
\* 67 <= v < 80, 0x1A for 80 <= v < 318, 0x1B for 318 <= v < 332, 0x1A for
\* 332 <= v <= 340 and none for every other v; write_packet_versioned fails
\* with InvalidPacketId exactly where there is none, and then no byte of a
\* frame is written.
C18_PlayDisconnectIdTable ==
    /\ \A v \in ProbeVersions : protocol_id(v) = TabulatedPlayDisconnectId(v)
    /\ disconnect_result # "None" =>
           /\ disconnect_result = "InvalidPacketId"
                  <=> TabulatedPlayDisconnectId(HandshakeVersion) = -1
           /\ disconnect_result = "InvalidPacketId" => Len(client_out) = 1
           /\ disconnect_result = "Ok" =>
                  /\ Len(client_out) = 2
                  /\ client_out[2][2] = TabulatedPlayDisconnectId(HandshakeVersion)

C18_Witness ==
    /\ pc = "Terminated"
    /\ disconnect_result = "InvalidPacketId"
    /\ protocol = 341
    /\ Len(client_out) = 1

\* C19: the reason of every Disconnect and PlayDisconnect the proxy writes is
\* the JSON {"text":"<r>","color":"red"} without any whitespace: the frame a
\* client gets after a failed HMAC verification carries
\* {"text":"Failed to verify your identity, please rejoin the server","color":"red"},
\* and the frame it gets at shutdown carries the shutdown reason in the same
\* form.
C19_ReasonJsonIsCompact ==
    /\ (Len(client_out) = 2 /\ disconnect_result = "None") =>
           client_out[2] = CompactDisconnectFrame(DisconnectId, VerifyFailedReason)
    /\ disconnect_result = "Ok" =>
           client_out[2] = CompactDisconnectFrame(protocol_id(protocol), ShuttingDownReason)

\* {"name":"<n>","value":"<v>"}
UnsignedObject(n, v) ==
    <<123, 34, 110, 97, 109, 101, 34, 58, 34>> \o n
        \o <<34, 44, 34, 118, 97, 108, 117, 101, 34, 58, 34>> \o v \o <<34, 125>>

\* {"name":"<n>","value":"<v>","signature":"<s>"}
SignedObject(n, v, s) ==
    <<123, 34, 110, 97, 109, 101, 34, 58, 34>> \o n
        \o <<34, 44, 34, 118, 97, 108, 117, 101, 34, 58, 34>> \o v
        \o <<34, 44, 34, 115, 105, 103, 110, 97, 116, 117, 114, 101, 34, 58, 34>> \o s
        \o <<34, 125>>

\* S NUL "a" NUL "abc": the address of the client's Handshake, the client
\* address of the response, and the uuid 0x0abc in lowercase hexadecimal
ExpectedAddresses == script.server_address \o <<0, 97, 0, 97, 98, 99>>

\* what the claim appends for each property list a client script can carry
ExpectedPropertyList(properties) ==
    CASE properties = <<0>> -> <<>>
      [] properties = <<1, 1, 110, 1, 118, 1, 1, 115>> ->
             <<0, 91>> \o SignedObject(<<110>>, <<118>>, <<115>>) \o <<93>>
      [] properties = <<1, 1, 110, 1, 118, 0>> ->
             <<0, 91>> \o UnsignedObject(<<110>>, <<118>>) \o <<93>>
      [] properties = <<2, 1, 110, 1, 118, 1, 1, 115, 1, 109, 1, 119, 0>> ->
             <<0, 91>> \o SignedObject(<<110>>, <<118>>, <<115>>) \o <<44>>
                 \o UnsignedObject(<<109>>, <<119>>) \o <<93>>

\* C20: once a verified response has been acted on, the server_address of
\* the Handshake is S NUL A NUL hex(U), hex(U) in lowercase without
\* separators or leading zeroes, followed -- exactly when the response has
\* properties -- by NUL "[" , one object {"name":"n","value":"v"} per
\* property in the response's order (with ,"signature":"s" inside it exactly
\* when the property is signed), single commas between the objects and none
\* after the last, and "]".
C20_ForwardingDataLayout ==
    (/\ ResponseVerified
     /\ pc # "Validate"
     /\ Len(ExpectedAddresses \o ExpectedPropertyList(script.properties)) <= MCStringMax) =>
        handshake.server_address.value
            = ExpectedAddresses \o ExpectedPropertyList(script.properties)

C20_Witness ==
    /\ ResponseVerified
    /\ pc = "Forwarding"
    /\ script.properties = <<2, 1, 110, 1, 118, 1, 1, 115, 1, 109, 1, 119, 0>>
    /\ Len(handshake.server_address.value) = 75

\* the protocol version of the Handshake a read handed back, as a set
ReadVersions ==
    {reads[i].res.packet.protocol_version.value :
         i \in {j \in 1..Len(reads) : reads[j].kind = "Handshake" /\ reads[j].res.tag = "Ok"}}

\* C21: for every i32 v, the negative ones included, VarInt::new(v)
\* succeeds, write emits an encoding that read decodes back to v, and
\* byte_size() is the number of bytes written; stated of every protocol
\* version the proxy has decoded from a Handshake.
C21_VarIntRoundTrip ==
    \A v \in ReadVersions :
        /\ VarIntTryFrom(v).tag = "Ok"
        /\ ~VarIntWriteAborts(v)
        /\ VarIntRead(VarIntWrite(v)).tag = "Ok"
        /\ VarIntRead(VarIntWrite(v)).value = v
        /\ VarIntByteSize(VarIntTryFrom(v)) = Len(VarIntWrite(v))

\* the length prefix of the string that opens the body of the frame a read
\* started on
FirstStringLength(rd) == VarIntRead(Drop(rd.src, PrefixLength(rd) + 1)).value

\* C23: a LoginStart whose username declares more than 16 bytes, or a
\* negative length, makes the read return an invalid-data error, and the
\* connection ends with that read.
C23_OverlongUsernameRejected ==
    \A i \in 1..Len(reads) :
        (/\ reads[i].kind = "LoginStart"
         /\ Len(reads[i].src) > PrefixLength(reads[i]) + 1
         /\ (FirstStringLength(reads[i]) > 16 \/ FirstStringLength(reads[i]) < 0)) =>
            /\ reads[i].res.tag = "Io"
            /\ i = Len(reads)
            /\ pc = "Terminated"

\* the first five bytes of a stream all carry the continuation bit
FiveContinuations(s) == Len(s) >= 5 /\ \A k \in 1..5 : s[k] >= 128

\* C22: a read that starts on five bytes with the continuation bit set ends
\* in an error after at most six bytes, and the write of every i32 ends
\* having emitted at most 5 bytes; stated of every frame the proxy started
\* to read and of every protocol version it decoded and has to write again.
C22_VarIntReadAndWriteBounded ==
    /\ \A i \in 1..Len(reads) :
           FiveContinuations(reads[i].src) =>
               /\ reads[i].res.tag = "Io"
               /\ Consumed(reads[i]) <= 6
    /\ \A v \in ReadVersions :
           /\ ~VarIntWriteAborts(v)
           /\ Len(VarIntWrite(v)) <= 5

\* C27: once forwarding has begun, the bytes the client sent after the
\* plugin response frame reach the backend unchanged and in order -- each of
\* them is on the backend socket or still unread, none dropped, rewritten or
\* inserted -- and the proxy has put nothing of its own on the client socket
\* since the plugin request.
C27_SplicingIsVerbatim ==
    pc = "Forwarding" =>
        /\ spliced \o cin = script.tail
        /\ relayed \o bin = BackendStream
        /\ Len(client_out) = 1

\* the message_id of a request frame: the VarInt after the one-byte length
\* and the ID
RequestMessageId(frame) == VarIntRead(Drop(frame, 2)).value

\* VelocityLoginPluginRequest::new did not return: the task stopped between
\* the read of LoginStart and the write of the request
RequestPanicked ==
    /\ pc = "Aborted"
    /\ Len(reads) = 2
    /\ reads[2].res.tag = "Ok"
    /\ client_out = <<>>

\* C28: for every connection_id the wrapping counter can hand out, the
\* negative ones included, a login connection builds and sends a plugin
\* request whose message_id decodes to that id, and a response that echoes
\* the id passes the message_id check.
C28_RequestCarriesConnectionId ==
    /\ ~RequestPanicked
    /\ client_out # <<>> => RequestMessageId(client_out[1]) = connection_id
    /\ (response # NoResponse /\ script.id_offset = 0) =>
           MessageIdMatches(response, connection_id)

\* the frame of a plugin request for a message id below 128: 24 bytes of ID
\* and body, the ID 0x04, the id, "velocity:player_info" behind its length
\* 20, and 0x01
ExpectedRequestFrame(id) ==
    <<24, 4, id, 20>>
        \o <<118, 101, 108, 111, 99, 105, 116, 121, 58>>
        \o <<112, 108, 97, 121, 101, 114, 95, 105, 110, 102, 111>>
        \o <<1>>

\* C29: the first frame the proxy writes to the client of a login is the
\* VelocityLoginPluginRequest (ID 0x04, message_id = connection_id, channel
\* "velocity:player_info", 0x01), written after the LoginStart was read and
\* before any further read from the client; it is never written twice, and
\* before forwarding the only other frame to the client is one Disconnect
\* that ends the connection.
C29_SinglePluginRequest ==
    /\ client_out # <<>> =>
           /\ Len(reads) >= 2
           /\ reads[2].kind = "LoginStart"
           /\ reads[2].res.tag = "Ok"
           /\ client_out[1] = ExpectedRequestFrame(connection_id)
    /\ Len(reads) >= 3 => client_out # <<>>
    /\ \A i \in 2..Len(client_out) : client_out[i][2] # VelocityLoginPluginRequestId
    /\ disconnect_result = "None" =>
           /\ Len(client_out) <= 2
           /\ Len(client_out) = 2 =>
                  /\ client_out[2][2] = DisconnectId
                  /\ pc = "Terminated"

C29_Witness ==
    /\ pc = "AwaitPluginResponse"
    /\ Len(reads) = 2
    /\ client_out = <<ExpectedRequestFrame(7)>>

\* the body of a frame: what follows its length prefix and its ID byte
FrameBody(frame) == Drop(frame, VarIntRead(frame).bytes_needed + 1)

\* the Handshake the client sent, as the first read decoded it
ReceivedHandshake == reads[1].res.packet

\* C30: the Handshake the backend of a login receives carries the
\* protocol_version, server_port and next_state the client sent, and the
\* LoginStart it receives carries the username of the verified response,
\* whatever username the client put in its LoginStart.
C30_RewriteTouchesAddressAndUsername ==
    /\ (IsLogin /\ Len(backend_out) >= 1) =>
           /\ HandshakeRead(FrameBody(backend_out[1])).tag = "Ok"
           /\ HandshakeRead(FrameBody(backend_out[1])).packet.protocol_version.value
                  = ReceivedHandshake.protocol_version.value
           /\ HandshakeRead(FrameBody(backend_out[1])).packet.server_port
                  = ReceivedHandshake.server_port
           /\ HandshakeRead(FrameBody(backend_out[1])).packet.next_state.value
                  = ReceivedHandshake.next_state.value
    /\ (IsLogin /\ Len(backend_out) >= 2) =>
           /\ ResponseVerified
           /\ LoginStartRead(FrameBody(backend_out[2])).tag = "Ok"
           /\ LoginStartRead(FrameBody(backend_out[2])).packet.username.value
                  = response.username.value

C30_Witness ==
    /\ IsLogin
    /\ ResponseVerified
    /\ Len(backend_out) >= 2
    /\ script.username = <<65>>
    /\ LoginStartRead(FrameBody(backend_out[2])).packet.username.value = <<66>>
    /\ HandshakeRead(FrameBody(backend_out[1])).packet.server_port = 25565

\* the peer accepted last is not on a list that has entries
CurrentUntrusted ==
    /\ accepted > 0
    /\ trusted_ips # {}
    /\ client_adress \notin trusted_ips

\* the Disconnect (ID 0x00) whose reason is the text of the rejection
UntrustedFrame ==
    <<85, 0, 83>> \o <<123, 34, 116, 101, 120, 116, 34, 58, 32, 34>> \o UntrustedReason
        \o <<34, 44, 32, 34, 99, 111, 108, 111, 114, 34, 58, 32, 34, 114, 101, 100, 34, 125>>

\* the only read of the rejection returned a Handshake that asks for login
RejectedLogin ==
    /\ Len(reads) = 1
    /\ reads[1].res.tag = "Ok"
    /\ reads[1].res.packet.next_state.value = 2

\* C24: the rejection of an untrusted peer reads one packet from it, the
\* Handshake, and never a second; it writes a Disconnect with the reason
\* "You are not allowed to connect to this server directly!" when that
\* Handshake was read and asks for login, and not one byte in every other
\* case (status, transfer, a read that failed).
C24_RejectionReadsOnceAnswersLogin ==
    CurrentUntrusted =>
        /\ Len(reads) <= 1
        /\ client_out \in {<<>>, <<UntrustedFrame>>}
        /\ client_out # <<>> => RejectedLogin
        /\ (RejectedLogin /\ pc = "Accepting") => client_out # <<>>

C24_Witness ==
    /\ CurrentUntrusted
    /\ pc = "Accepting"
    /\ client_out = <<UntrustedFrame>>
    /\ cin # <<>>

C25_Inv ==
    /\ CurrentUntrusted => pc # "Connecting"
    /\ trusted_ips = {} =>
           /\ pc \in {"Accepting", "Connecting", "ListenerClosed"}
           /\ reads = <<>>

C25_Step ==
    /\ CurrentUntrusted' =>
           /\ backends' = backends
           /\ connection_id' = connection_id
           /\ spawned' = spawned
    /\ (trusted_ips = {} /\ accepted' = accepted + 1) => pc' = "Connecting"
    /\ Len(spawned') > Len(spawned) =>
           /\ pc = "Connecting"
           /\ ~CurrentUntrusted
           /\ backends' = backends + 1
           /\ spawned' = Append(spawned, connection_id)

\* C25: a peer whose address is not on a trusted_ips list that has entries
\* is never paired -- no backend connection is opened and no connection_id
\* is used up while it is the peer at hand -- and with an empty list every
\* accepted peer goes on to the backend connect and none is rejected; an id
\* is handed out only together with a backend connection that was opened.
C25_UntrustedNeverPaired == []C25_Inv /\ [][C25_Step]_vars

C25_Witness ==
    /\ trusted_ips = {TrustedIp}
    /\ client_adress = OtherIp
    /\ accepted = 2
    /\ pc = "Accepting"
    /\ Len(reads) = 1
    /\ spawned = <<0>>
    /\ backends = 1
    /\ connection_id = 1

C26_Step ==
    pc \in {"Rejecting", "RejectDisconnect", "Connecting"} =>
        pc' \in {pc, "RejectDisconnect", "Accepting"}

\* C26: whatever fails while one peer is handled -- the read of the
\* Handshake or the write of the Disconnect of a rejection, the connect to
\* the backend -- the acceptor goes back to accepting the next connection.
C26_AcceptorSurvivesFailures == [][C26_Step]_vars

\* the string insert_forwarding_data has to build for the script at hand
ExpectedForwardingData == ExpectedAddresses \o ExpectedPropertyList(script.properties)

FirstPacketRejected ==
    /\ Len(reads) >= 1
    /\ \/ reads[1].res.tag # "Ok"
       \/ reads[1].res.packet.next_state.value \notin {1, 2, 3}

StringsHeld == {handshake.server_address, login_start.username} \ {NoString}

\* C33: every MCString, built by new or obtained by read -- one whose wire
\* bytes were not valid UTF-8 and were decoded lossily included -- is
\* written as VarInt(n) followed by exactly n bytes, and its byte_size() is
\* the number of bytes written.
C33_StringWrittenWithItsLength ==
    \A m \in StringsHeld :
        /\ MCStringWrite(m) = VarIntWrite(Len(m.value)) \o m.value
        /\ MCStringByteSize(m) = Len(MCStringWrite(m))

C34_Step ==
    (/\ pc \in {"Forwarding", "StatusForwarding"}
     /\ \/ client_eof' # client_eof
        \/ backend_eof' # backend_eof) =>
        pc' = "Terminated"

\* C34: forwarding runs until either direction ends or the token fires: the
\* step in which one direction of the copy reaches the end of its stream
\* ends the copy of the other direction too, and the connection terminates.
C34_EitherDirectionEndsForwarding == [][C34_Step]_vars

\* where the frames of the backend end in its stream
BackendBoundaries == {0, 3}

\* C37: when the token fires during forwarding, the PlayDisconnect written
\* to the client starts at a packet boundary of the backend-to-client
\* stream: what was relayed before it is a whole number of backend packets.
C37_DisconnectAtPacketBoundary ==
    disconnect_result = "Ok" => Len(relayed) \in BackendBoundaries

\* C35: a read that starts on a frame whose declared length is zero or
\* negative returns an error -- it neither panics nor fails to return --
\* and consumes nothing beyond that frame, which ends with its length
\* prefix.
C35_EmptyFrameIsAnError ==
    \A i \in 1..Len(reads) :
        (VarIntRead(reads[i].src).tag = "Ok" /\ DeclaredLength(reads[i]) <= 0) =>
            /\ reads[i].res.tag \notin {"Ok", "Abort"}
            /\ Consumed(reads[i]) <= PrefixLength(reads[i])

\* a read started on a frame with ID 0x02 whose declared body is shorter
\* than message_id, has_payload and the signature
UnderstatedResponse(rd) ==
    /\ rd.kind = "VelocityLoginPluginResponse"
    /\ VarIntRead(rd.src).tag = "Ok"
    /\ Len(rd.src) > PrefixLength(rd)
    /\ rd.src[PrefixLength(rd) + 1] = VelocityLoginPluginResponseId
    /\ VarIntRead(FrameBody(rd.src)).tag = "Ok"
    /\ DeclaredLength(rd) - 1 < VarIntRead(FrameBody(rd.src)).bytes_needed + 1 + SigLen

\* C36: a response frame whose declared body is shorter than message_id,
\* has_payload and the signature makes the read return an I/O error without
\* reading past the frame, and nothing is written to the backend.
C36_UnderstatedResponseIsIoError ==
    \A i \in 1..Len(reads) :
        UnderstatedResponse(reads[i]) =>
            /\ reads[i].res.tag = "Io"
            /\ Consumed(reads[i]) <= PrefixLength(reads[i]) + DeclaredLength(reads[i])
            /\ backend_out = <<>>

\* the number of NUL bytes of a string
NulCount(s) == Cardinality({i \in 1..Len(s) : s[i] = 0})

\* C38: the server_address written by an accepted login holds exactly two
\* NUL separators when the response has no property and exactly three
\* otherwise, so that splitting it on NUL gives back the server address, the
\* client address, the UUID and the property JSON.
C38_ForwardingDataSplitsOnNul ==
    (ResponseVerified /\ pc # "Validate" /\ Len(ExpectedForwardingData) <= MCStringMax) =>
        NulCount(handshake.server_address.value) = IF script.properties = <<0>> THEN 2 ELSE 3

\* what the body reader of a response read makes of the frame it started on
ResponseBodyOf(rd) ==
    VelocityLoginPluginResponseRead(Drop(rd.src, PrefixLength(rd) + 1), DeclaredLength(rd) - 1)

\* the bytes the frame declares beyond the byte_size() of the response
Undeclared(rd) ==
    DeclaredLength(rd) - 1 - VelocityLoginPluginResponseByteSize(ResponseBodyOf(rd).packet)

\* a response read whose body reader succeeded with a byte_size() below the
\* declared length, the stream still holding the bytes of the drain
UnderRead(rd) ==
    /\ rd.kind = "VelocityLoginPluginResponse"
    /\ rd.res.tag \in {"Ok", "PacketSizeMismatch"}
    /\ ResponseBodyOf(rd).tag = "Ok"
    /\ Undeclared(rd) > 0

\* C39: a read returns PacketSizeMismatch only with expected < got; the
\* await-response loop is therefore never re-entered after a
\* PacketSizeMismatch, and a response whose byte_size() is below the
\* declared length is handed back as a successful read.
C39_SizeMismatchOnlyWhenOverRead ==
    /\ \A i \in 1..Len(reads) :
           /\ reads[i].res.tag = "PacketSizeMismatch" =>
                  /\ reads[i].res.expected < reads[i].res.got
                  /\ i = Len(reads)
                  /\ pc # "AwaitPluginResponse"
           /\ UnderRead(reads[i]) =>
                  /\ reads[i].res.tag = "Ok"
                  /\ reads[i].res.packet = ResponseBodyOf(reads[i]).packet
    /\ (pc = "AwaitPluginResponse" /\ reads # <<>>) =>
           reads[Len(reads)].res.tag \in {"Ok", "InvalidPacketId"}

C39_Witness ==
    /\ Len(reads) = 2
    /\ reads[2].kind = "LoginStart"
    /\ reads[2].res.tag = "PacketSizeMismatch"
    /\ reads[2].res.expected < reads[2].res.got
    /\ pc = "Terminated"

\* an under-read response that was handed back is reachable
C39_UnderReadAccepted ==
    /\ pc = "Validate"
    /\ UnderRead(reads[Len(reads)])

====
